---- MODULE Spec2Model ----
(***************************************************************************)
(* Snake with an evolutionary Q-learning trainer (src/src/main.rs).        *)
(*                                                                         *)
(* The state is the state of `main`: the manually played `game`, the       *)
(* trainer `evo` (population, games, score slots, champion, counters) and  *)
(* the position of the main thread and of the per-agent closures of the    *)
(* parallel population step.                                               *)
(*                                                                         *)
(* f32 quantities are fixed-point integers: Q-values and rewards in        *)
(* 1/1000, alpha and gamma in 1/100, epsilon in 1/10000.  The display      *)
(* colour of an agent takes no part in any decision and is left out.       *)
(***************************************************************************)
EXTENDS Integers, Sequences, FiniteSets, TLC

(***************************************************************************)
(* Bounds of the model.  The program plays on a 40 x 30 grid with 24       *)
(* agents, a step limit of 4000 and a stagnation threshold of              *)
(* 1000 + 500 * restart_count; the model keeps the code and shrinks the    *)
(* numbers.                                                                *)
(***************************************************************************)
GRID_WIDTH == 4
GRID_HEIGHT == 2
\* updates of the manually played game in one run
MaxUpdates == 7
\* step_limit of the trainer (4000 in the program)
StepLimit == 2
\* base_threshold of reproduce (1000 in the program) and its growth per
\* restart (500 in the program)
BaseThreshold == 1
ThresholdStep == 1

\* population of main's trainer (24 in the program)
PopSize == 2
\* population steps in one run of the training loop
MaxSteps == 3
\* free cells, nearest to the head first, that the apple of a trainer game
\* is drawn from
MaxAppleDraws == 2
\* iterations of the step loop in one frame (evo_steps_per_frame and
\* max_steps_per_tick, up to 100000 in the program)
MaxRun == 2
\* presses of the E key in one run
MaxToggles == 2
\* largest score written into a score slot when reproduce is driven directly
MaxScore == 1
\* reproduce calls in one run when reproduce is driven directly
MaxReproEpoch == 22
\* population steps in one run of the training loop that is followed to
\* the last apple
MaxEndgameSteps == 6
\* largest population when reproduce is driven directly
MaxPop == 11
\* presses of the E key in one run when reproduce is driven directly
MaxReproToggles == 3
\* presses of the E key in one run of the training loop that is followed to
\* the last apple
MaxEndgameToggles == 3
\* deaths of the agent whose epsilon is followed
MaxEpisodes == 2

\* Steps of the training loop followed with a backend active.
MaxBackendSteps == 2
\* largest population when reproduce is driven on agents that have learnt
MaxSteadyPop == 8
\* reproduce calls in one such run
MaxSteadyEpoch == 3

\* Epochs followed by the run without a bound on its steps.
MaxLiveEpoch == 1

VARIABLES
    game,        \* main: the manually played Game
    evo,         \* main: the EvoTrainer
    pc,          \* main thread: "idle" (between event callbacks), "par" (in
                 \* the parallel for_each of one step), "reproduce" (epoch
                 \* ended, about to call reproduce)
    stepped,     \* slots whose closure of the current for_each has returned
    solved_flag, \* the AtomicBool of the current step
    to_run,      \* iterations of the step loop left in this callback
    pre,         \* history: pop, games and scores when the current step began
    draws,       \* history: per slot, the action and apple cell its closure drew
    toggles,     \* number of E presses so far (bounds the run)
    fault,       \* "None", or how the process stopped: "Hang" (a call that
                 \* never returns), "Panic" (an overflow check aborted it)
    ticks        \* number of game updates, population steps or reproduce
                 \* calls so far (bounds the run)

vars == <<game, evo, pc, stepped, solved_flag, to_run, pre, draws, toggles, fault, ticks>>

evo_ctl == <<pc, stepped, solved_flag, to_run, pre, draws>>

Dirs == {"Up", "Down", "Left", "Right"}

Abs(n) == IF n < 0 THEN -n ELSE n

Max(a, b) == IF a >= b THEN a ELSE b

Min(a, b) == IF a <= b THEN a ELSE b

Pos(x, y) == [x |-> x, y |-> y]

Cells == {Pos(x, y) : x \in 0..(GRID_WIDTH - 1), y \in 0..(GRID_HEIGHT - 1)}

(***************************************************************************)
(* Game.  Random draws are explicit arguments: place_apple samples cells   *)
(* until one is outside snake_set, and `p` is the cell it settles on.      *)
(***************************************************************************)

\* FreeCells with the cells of the snake let through.
FreeCells_any(g) == Cells

FreeCells(g) == {p \in Cells : p \notin g.snake_set}

\* place_apple returns only with a free cell; with no free cell its loop
\* never ends.
place_apple_returns(g) == FreeCells(g) # {}

place_apple(g, p) == [g EXCEPT !.apple = p]

new_with_wrap(wrap_world, p) ==
    LET start_x == GRID_WIDTH \div 2
        start_y == GRID_HEIGHT \div 2
        p0 == Pos(start_x, start_y)
        p1 == Pos(start_x - 1, start_y)
        p2 == Pos(start_x - 2, start_y)
        g0 == [snake |-> <<p0, p1, p2>>,
               snake_set |-> {p0, p1, p2},
               dir |-> "Right",
               apple |-> Pos(0, 0),
               alive |-> TRUE,
               score |-> 0,
               paused |-> FALSE,
               last_death |-> "None",
               wrap_world |-> wrap_world]
    IN  place_apple(g0, p)

\* The cells place_apple can settle on in a new game.
NewGameCells == FreeCells(new_with_wrap(TRUE, Pos(0, 0)))

\* Game::new
new(p) == new_with_wrap(TRUE, p)

\* next_head with Left and Right exchanged.
next_head_mirrored(g) ==
    LET head == Head(g.snake)
    IN  CASE g.dir = "Up" -> Pos(head.x, head.y - 1)
          [] g.dir = "Down" -> Pos(head.x, head.y + 1)
          [] g.dir = "Left" -> Pos(head.x + 1, head.y)
          [] g.dir = "Right" -> Pos(head.x - 1, head.y)

\* The candidate head before wrapping or the wall test.
next_head(g) ==
    LET head == Head(g.snake)
    IN  CASE g.dir = "Up" -> Pos(head.x, head.y - 1)
          [] g.dir = "Down" -> Pos(head.x, head.y + 1)
          [] g.dir = "Left" -> Pos(head.x - 1, head.y)
          [] g.dir = "Right" -> Pos(head.x + 1, head.y)

\* wrap_pos with a coordinate off the grid held at the edge it left.
wrap_pos_clamped(p) ==
    Pos(IF p.x < 0 THEN 0 ELSE IF p.x >= GRID_WIDTH THEN GRID_WIDTH - 1 ELSE p.x,
        IF p.y < 0 THEN 0 ELSE IF p.y >= GRID_HEIGHT THEN GRID_HEIGHT - 1 ELSE p.y)

wrap_pos(p) ==
    Pos(IF p.x < 0 THEN GRID_WIDTH - 1 ELSE IF p.x >= GRID_WIDTH THEN 0 ELSE p.x,
        IF p.y < 0 THEN GRID_HEIGHT - 1 ELSE IF p.y >= GRID_HEIGHT THEN 0 ELSE p.y)

\* out_of_grid without the test of the right edge.
out_of_grid_right_open(p) == p.x < 0 \/ p.y < 0 \/ p.y >= GRID_HEIGHT

out_of_grid(p) == p.x < 0 \/ p.x >= GRID_WIDTH \/ p.y < 0 \/ p.y >= GRID_HEIGHT

\* pop_tail with the tail left on the snake.
pop_tail_none(g) == g

\* pop_tail with the tail cell left in the set mirror.
pop_tail_set_kept(g) ==
    IF Len(g.snake) = 0 THEN g
    ELSE [g EXCEPT !.snake = SubSeq(g.snake, 1, Len(g.snake) - 1)]

\* pop_back of the snake together with the removal from the set mirror.
pop_tail(g) ==
    IF Len(g.snake) = 0 THEN g
    ELSE [g EXCEPT !.snake = SubSeq(g.snake, 1, Len(g.snake) - 1),
                   !.snake_set = g.snake_set \ {g.snake[Len(g.snake)]}]

\* inactive without the test of the pause flag.
inactive_paused_ignored(g) == ~g.alive

\* The early exit of update.
inactive(g) == ~g.alive \/ g.paused

\* hits_body with the tail cell, which the move is about to vacate, let
\* through.
hits_body_tail_free(g, new_head) ==
    new_head \in g.snake_set \ {g.snake[Len(g.snake)]}

\* The self-collision test of update, made before the head is pushed and
\* before the tail is popped.
hits_body(g, new_head) == new_head \in g.snake_set

\* update leaving last_death as it is when the head runs into a wall.
update_wall_uncaused(g, p) ==
    IF inactive(g) THEN [g |-> g, returned |-> TRUE, ate |-> FALSE]
    ELSE
      LET g1 == [g EXCEPT !.last_death = "None"]
          cand == next_head(g1)
      IN  IF ~g1.wrap_world /\ out_of_grid(cand)
          THEN [g |-> [g1 EXCEPT !.alive = FALSE],
                returned |-> TRUE, ate |-> FALSE]
          ELSE
            LET new_head == IF g1.wrap_world THEN wrap_pos(cand) ELSE cand
            IN  IF hits_body(g1, new_head)
                THEN [g |-> [g1 EXCEPT !.last_death = "SelfCollision",
                                       !.alive = FALSE],
                      returned |-> TRUE, ate |-> FALSE]
                ELSE
                  LET g2 == [g1 EXCEPT !.snake = <<new_head>> \o g1.snake,
                                       !.snake_set = g1.snake_set \cup {new_head}]
                  IN  IF new_head = g2.apple
                      THEN LET g3 == [g2 EXCEPT !.score = g2.score + 1]
                           IN  IF place_apple_returns(g3)
                               THEN [g |-> place_apple(g3, p),
                                     returned |-> TRUE, ate |-> TRUE]
                               ELSE [g |-> g3, returned |-> FALSE, ate |-> TRUE]
                      ELSE [g |-> pop_tail(g2), returned |-> TRUE, ate |-> FALSE]

\* Game::update with apple draw p.  The result is [g, returned, ate]: the
\* game the call leaves behind, whether the call returns, and whether
\* place_apple was entered.  The call does not return when place_apple finds
\* no free cell; the game then stays as it was when place_apple was entered.
update(g, p) ==
    IF inactive(g) THEN [g |-> g, returned |-> TRUE, ate |-> FALSE]
    ELSE
      LET g1 == [g EXCEPT !.last_death = "None"]
          cand == next_head(g1)
      IN  IF ~g1.wrap_world /\ out_of_grid(cand)
          THEN [g |-> [g1 EXCEPT !.last_death = "Wall", !.alive = FALSE],
                returned |-> TRUE, ate |-> FALSE]
          ELSE
            LET new_head == IF g1.wrap_world THEN wrap_pos(cand) ELSE cand
            IN  IF hits_body(g1, new_head)
                THEN [g |-> [g1 EXCEPT !.last_death = "SelfCollision",
                                       !.alive = FALSE],
                      returned |-> TRUE, ate |-> FALSE]
                ELSE
                  LET g2 == [g1 EXCEPT !.snake = <<new_head>> \o g1.snake,
                                       !.snake_set = g1.snake_set \cup {new_head}]
                  IN  IF new_head = g2.apple
                      THEN LET g3 == [g2 EXCEPT !.score = g2.score + 1]
                           IN  IF place_apple_returns(g3)
                               THEN [g |-> place_apple(g3, p),
                                     returned |-> TRUE, ate |-> TRUE]
                               ELSE [g |-> g3, returned |-> FALSE, ate |-> TRUE]
                      ELSE [g |-> pop_tail(g2), returned |-> TRUE, ate |-> FALSE]

\* The draws update can make on g: a free cell of the grown snake when the
\* move eats the apple; no draw is made otherwise (one placeholder).
UpdateDraws(g) ==
    LET r == update(g, Pos(0, 0))
    IN  IF r.ate /\ r.returned THEN FreeCells(r.g) ELSE {Pos(0, 0)}

\* The apple draws the trainer specifications try: the k free cells nearest
\* to the head (ties by row, then column).
cell_rank(g, p) ==
    (Abs(p.x - Head(g.snake).x) + Abs(p.y - Head(g.snake).y)) * GRID_WIDTH * GRID_HEIGHT
    + p.y * GRID_WIDTH + p.x

NearestFree(g, k) ==
    {p \in FreeCells(g) :
       Cardinality({q \in FreeCells(g) : cell_rank(g, q) < cell_rank(g, p)}) < k}

\* The apple draws of update on g that a trainer specification tries: the k
\* nearest free cells of the grown snake when the move eats the apple; no
\* draw is made otherwise (one placeholder).
AppleDraws(g, k) ==
    LET r == update(g, Pos(0, 0))
    IN  IF r.ate /\ r.returned THEN NearestFree(r.g, k) ELSE {Pos(0, 0)}

EvoUpdateDraws(g) == AppleDraws(g, MaxAppleDraws)

EvoNewCells == NearestFree(new_with_wrap(TRUE, Pos(0, 0)), MaxAppleDraws)

\* opposite with Left and Right each taken for its own opposite.
opposite_sideways(d) ==
    CASE d = "Up" -> "Down"
      [] d = "Down" -> "Up"
      [] d = "Left" -> "Left"
      [] d = "Right" -> "Right"

opposite(d) ==
    CASE d = "Up" -> "Down"
      [] d = "Down" -> "Up"
      [] d = "Left" -> "Right"
      [] d = "Right" -> "Left"

change_dir(g, new_dir) ==
    IF new_dir # opposite(g.dir) THEN [g EXCEPT !.dir = new_dir] ELSE g

\* Game::change_dir of src/src/game.rs, a file no module of main.rs
\* includes: the heading after the call.
game_rs_change_dir(dir, new_dir) ==
    IF <<dir, new_dir>> \in {<<"Up", "Down">>, <<"Down", "Up">>,
                              <<"Left", "Right">>, <<"Right", "Left">>}
    THEN dir
    ELSE new_dir

(***************************************************************************)
(* Directions and actions                                                  *)
(***************************************************************************)

left_dir(d) ==
    CASE d = "Up" -> "Left"
      [] d = "Left" -> "Down"
      [] d = "Down" -> "Right"
      [] d = "Right" -> "Up"

\* right_dir turning the same way as left_dir.
right_dir_leftward(d) == left_dir(d)

right_dir(d) ==
    CASE d = "Up" -> "Right"
      [] d = "Right" -> "Down"
      [] d = "Down" -> "Left"
      [] d = "Left" -> "Up"

\* dir_after_action with the two turns exchanged.
dir_after_action_mirrored(d, a) ==
    CASE a = 0 -> right_dir(d)
      [] a = 1 -> d
      [] OTHER -> left_dir(d)

\* Actions are 0 = left, 1 = straight, 2 = right.
dir_after_action(d, a) ==
    CASE a = 0 -> left_dir(d)
      [] a = 1 -> d
      [] OTHER -> right_dir(d)

RECURSIVE Pow4(_)
Pow4(n) == IF n = 0 THEN 1 ELSE 4 * Pow4(n - 1)

\* The eight relative offsets state_key samples, in its order.
checks == << <<-1, -1>>, <<0, -1>>, <<1, -1>>, <<-1, 0>>, <<1, 0>>,
             <<-1, 1>>, <<0, 1>>, <<1, 1>> >>

\* world_offset with the row of heading Up used for every heading.
world_offset_unrotated(d, c) == <<c[1], -c[2]>>

\* The rotation of a relative offset into the world for heading d.
world_offset(d, c) ==
    CASE d = "Right" -> <<c[2], c[1]>>
      [] d = "Left" -> <<-c[2], -c[1]>>
      [] d = "Up" -> <<c[1], -c[2]>>
      [] d = "Down" -> <<-c[1], c[2]>>

\* The 2-bit value of one sampled cell.
cell_value(g, c) ==
    LET head == Head(g.snake)
        w == world_offset(g.dir, c)
        pos == Pos(head.x + w[1], head.y + w[2])
    IN  IF out_of_grid(pos) THEN 1
        ELSE IF pos \in g.snake_set THEN 1
        ELSE IF pos = g.apple THEN 2
        ELSE 0

RECURSIVE vision_bits(_, _)
vision_bits(g, n) ==
    IF n = 0 THEN 0
    ELSE vision_bits(g, n - 1) + cell_value(g, checks[n]) * Pow4(n - 1)

apple_dir(g) ==
    LET head == Head(g.snake)
        apple_dx == g.apple.x - head.x
        apple_dy == g.apple.y - head.y
    IN  CASE g.dir = "Right" ->
               IF apple_dy < -1 THEN 0 ELSE IF apple_dy > 1 THEN 2 ELSE 1
          [] g.dir = "Left" ->
               IF apple_dy > 1 THEN 0 ELSE IF apple_dy < -1 THEN 2 ELSE 1
          [] g.dir = "Up" ->
               IF apple_dx < -1 THEN 0 ELSE IF apple_dx > 1 THEN 2 ELSE 1
          [] g.dir = "Down" ->
               IF apple_dx > 1 THEN 0 ELSE IF apple_dx < -1 THEN 2 ELSE 1

\* Manhattan distance from the head to the apple.
apple_dist(g) ==
    LET head == Head(g.snake)
    IN  Abs(g.apple.x - head.x) + Abs(g.apple.y - head.y)

dist_cat(g) ==
    LET dist == apple_dist(g)
    IN  IF dist <= 3 THEN 0 ELSE IF dist <= 8 THEN 1 ELSE IF dist <= 16 THEN 2 ELSE 3

\* Bits 0-15 vision, 16-17 apple direction, 18-19 distance bucket.
state_key(g) == vision_bits(g, 8) + apple_dir(g) * 65536 + dist_cat(g) * 262144

(***************************************************************************)
(* QAgent                                                                  *)
(***************************************************************************)

\* QAgent::new; q maps a state key to <<left, straight, right>>.
QAgent_new ==
    [q |-> <<>>,
     epsilon |-> 2500,
     min_epsilon |-> 500,
     decay |-> 9992,
     alpha |-> 30,
     gamma |-> 95,
     steps |-> 0,
     episodes |-> 0]

\* The agent after get_qs(s): an unseen state gets a zero entry.
get_qs(agent, s) ==
    IF s \in DOMAIN agent.q THEN agent
    ELSE [agent EXCEPT !.q = [k \in (DOMAIN agent.q) \cup {s} |->
                                 IF k \in DOMAIN agent.q THEN agent.q[k]
                                 ELSE <<0, 0, 0>>]]

\* greedy_action with a tie between the first two actions given to the second.
greedy_action_strict(qs) ==
    IF qs[1] > qs[2] /\ qs[1] >= qs[3] THEN 0
    ELSE IF qs[2] >= qs[3] THEN 1
    ELSE 2

greedy_action(qs) ==
    IF qs[1] >= qs[2] /\ qs[1] >= qs[3] THEN 0
    ELSE IF qs[2] >= qs[3] THEN 1
    ELSE 2

\* select_action with the draws of its rng: explore says whether the f32
\* draw fell below epsilon, rand_a is the gen_range(0..3) draw.  The result
\* is [a, agent]; only the greedy branch calls get_qs.
select_action(agent, s, explore, rand_a) ==
    IF explore THEN [a |-> rand_a, agent |-> agent]
    ELSE LET ag == get_qs(agent, s)
         IN  [a |-> greedy_action(ag.q[s]), agent |-> ag]

\* The values explore can take: the draw is in [0, 1).
ExploreDraws(agent) ==
    {b \in BOOLEAN : (b => agent.epsilon > 0) /\ (~b => agent.epsilon < 10000)}

\* epsilon_decay without the floor at min_epsilon.
epsilon_decay_unclamped(agent) == (agent.epsilon * agent.decay) \div 10000

epsilon_decay(agent) ==
    Max((agent.epsilon * agent.decay) \div 10000, agent.min_epsilon)

\* learn reading the row of next_state through get_qs, which stores it.
learn_next_row_stored(agent, s, a, r, ns, done) ==
    LET nag == IF done THEN agent ELSE get_qs(agent, ns)
        next_max == IF done THEN 0
                    ELSE Max(Max(nag.q[ns][1], nag.q[ns][2]), nag.q[ns][3])
        ag == get_qs(nag, s)
        qsa == ag.q[s][a + 1]
        td_target == r + (agent.gamma * next_max) \div 100
    IN  [ag EXCEPT !.q[s][a + 1] = qsa + (agent.alpha * (td_target - qsa)) \div 100]

learn(agent, s, a, r, ns, done) ==
    LET next_max == IF done THEN 0
                    ELSE LET nqs == IF ns \in DOMAIN agent.q THEN agent.q[ns]
                                    ELSE <<0, 0, 0>>
                         IN  Max(Max(nqs[1], nqs[2]), nqs[3])
        ag == get_qs(agent, s)
        qsa == ag.q[s][a + 1]
        td_target == r + (agent.gamma * next_max) \div 100
    IN  [ag EXCEPT !.q[s][a + 1] = qsa + (agent.alpha * (td_target - qsa)) \div 100]

boost_exploration(agent) == [agent EXCEPT !.epsilon = 3500, !.alpha = 45]

\* The rows of noise a mutation is tried with; gen_range(-sigma..sigma)
\* draws from [-sigma, sigma).
NoiseRow(sigma, n) ==
    CASE n = 1 -> <<-sigma, -sigma, -sigma>>
      [] n = 2 -> <<0, 0, 0>>
      [] OTHER -> <<sigma - 1, 0, -sigma>>

NoiseIds == 1..3

\* mutate_qagent; the same row of draws is added to every stored state.
mutate_qagent(agent, row) ==
    [agent EXCEPT
       !.q = [k \in DOMAIN agent.q |-> [j \in 1..3 |-> agent.q[k][j] + row[j]]],
       !.epsilon = epsilon_decay(agent)]

\* The reward of one step of the training loop.
reward(died, ate, last_death, length1, d0, d1) ==
    LET base == IF died
                THEN CASE last_death = "SelfCollision" -> -30000
                       [] last_death = "Wall" -> -20000
                       [] OTHER -> -12000
                ELSE IF ate THEN 10000 + length1 * 100
                ELSE -5
        shape == IF ~died /\ ~ate
                 THEN (IF d1 < d0 THEN 50 ELSE IF d1 > d0 THEN -30 ELSE 0)
                      + (IF d1 <= 3 THEN 20 ELSE 0)
                 ELSE 0
    IN  base + shape

(***************************************************************************)
(* EvoTrainer.  Population slots are numbered from 1.                      *)
(***************************************************************************)

NoChampion == [none |-> TRUE]

\* reset_epoch with the score slots left as they are.
reset_epoch_scores_kept(e, apples) ==
    [e EXCEPT !.current = 0,
              !.steps_taken = 0,
              !.games = [j \in 1..Len(e.games) |->
                           IF j <= e.pop_size
                           THEN new_with_wrap(e.wrap_world, apples[j])
                           ELSE e.games[j]]]

\* reset_epoch building every game with a wrapping world.
reset_epoch_wrapping(e, apples) ==
    [e EXCEPT !.current = 0,
              !.steps_taken = 0,
              !.scores = [j \in 1..Len(e.scores) |-> 0],
              !.games = [j \in 1..Len(e.games) |->
                           IF j <= e.pop_size
                           THEN new_with_wrap(TRUE, apples[j])
                           ELSE e.games[j]]]

reset_epoch(e, apples) ==
    [e EXCEPT !.current = 0,
              !.steps_taken = 0,
              !.scores = [j \in 1..Len(e.scores) |-> 0],
              !.games = [j \in 1..Len(e.games) |->
                           IF j <= e.pop_size
                           THEN new_with_wrap(e.wrap_world, apples[j])
                           ELSE e.games[j]]]

EvoTrainer_new(pop_size, apples) ==
    [training |-> FALSE,
     solved |-> FALSE,
     pop |-> [j \in 1..pop_size |-> QAgent_new],
     pop_size |-> pop_size,
     current |-> 0,
     epoch |-> 0,
     epoch_best |-> <<>>,
     scores |-> [j \in 1..pop_size |-> 0],
     step_limit |-> StepLimit,
     steps_taken |-> 0,
     target_score |-> Max(GRID_WIDTH * GRID_HEIGHT - 3, 0),
     best_score |-> 0,
     games |-> [j \in 1..pop_size |-> new_with_wrap(TRUE, apples[j])],
     champion |-> NoChampion,
     champion_score |-> 0,
     champion_epoch |-> 0,
     epochs_without_improvement |-> 0,
     restart_count |-> 0,
     wrap_world |-> TRUE]

set_wrap_world(e, wrap, apples) == reset_epoch([e EXCEPT !.wrap_world = wrap], apples)

\* idxs of reproduce: the slots by descending score; the sort is stable, so
\* equal scores stay in slot order.
RECURSIVE sort_idxs(_, _)
sort_idxs(scores, rest) ==
    IF rest = {} THEN <<>>
    ELSE LET b == CHOOSE i \in rest :
                    \A j \in rest : scores[i] > scores[j]
                                    \/ (scores[i] = scores[j] /\ i <= j)
         IN  <<b>> \o sort_idxs(scores, rest \ {b})

\* n copies of a fresh agent, boosted in the last restart tier.
fresh_agents(n, boosted) ==
    [j \in 1..n |-> IF boosted THEN boost_exploration(QAgent_new) ELSE QAgent_new]

\* tier_children with the share of the second tier at every tier.
tier_children_halved(rc, n) == Max(n \div 2 - 1, 0)

\* Number of mutated champion children a restart of tier rc pushes after the
\* champion itself.
tier_children(rc, n) ==
    CASE rc = 1 -> n - 1
      [] rc = 2 -> Max(n \div 2 - 1, 0)
      [] rc = 3 -> Max((n * 3) \div 10 - 1, 0)
      [] rc = 4 -> Max(n \div 5 - 1, 0)
      [] OTHER -> Max(n \div 10 - 1, 0)

\* Mutation magnitude of a restart tier, in 1/1000.
tier_sigma(rc) ==
    CASE rc = 1 -> 250
      [] rc = 2 -> 400
      [] rc = 3 -> 350
      [] rc = 4 -> 600
      [] OTHER -> 800

\* The population a stagnation restart of tier rc builds.
restart_pop(champion, rc, n, noise) ==
    LET k == tier_children(rc, n)
        kids == [j \in 1..k |->
                   mutate_qagent(boost_exploration(champion),
                                 NoiseRow(tier_sigma(rc), noise[j]))]
        part == <<champion>> \o kids
    IN  part \o fresh_agents(n - Len(part), rc >= 5)

\* champion_pop with the champion's own slot mutated like the others.
champion_pop_all_mutated(champion, n, noise) ==
    [j \in 1..n |-> mutate_qagent(champion, NoiseRow(150, noise[Max(j - 1, 1)]))]

\* The population built from a new champion.
champion_pop(champion, n, noise) ==
    <<champion>> \o [j \in 1..(n - 1) |->
                       mutate_qagent(champion, NoiseRow(150, noise[j]))]

\* steady_base with the elite taken from the first slots, whatever their
\* scores.
steady_base_first_slots(e, idxs, rng) ==
    LET top_k == Min(3, e.pop_size)
        elite == [j \in 1..top_k |-> e.pop[j]]
        kids == [c \in 1..4 |->
                   mutate_qagent(e.pop[idxs[rng.parents[c]]],
                                 NoiseRow(150, rng.noise[c]))]
    IN  elite \o kids

\* The elite and the four children of the normal branch, before the fresh
\* agents are added.
steady_base(e, idxs, rng) ==
    LET top_k == Min(3, e.pop_size)
        elite == [j \in 1..top_k |-> e.pop[idxs[j]]]
        kids == [c \in 1..4 |->
                   mutate_qagent(e.pop[idxs[rng.parents[c]]],
                                 NoiseRow(150, rng.noise[c]))]
    IN  elite \o kids

\* `self.pop_size - new_pop.len()` of the normal branch is a usize
\* subtraction: it overflows when the elite and the children outnumber the
\* population.
steady_overflows(e) == Min(3, e.pop_size) + 4 > e.pop_size

\* steady_pop without the truncation of a surplus.
steady_pop_untruncated(e, idxs, rng) ==
    LET n == e.pop_size
        base == steady_base(e, idxs, rng)
        num_fresh == IF Len(base) > n THEN 3 ELSE Min(3, n - Len(base))
        filled == base \o fresh_agents(num_fresh, FALSE)
    IN  IF Len(filled) < n THEN filled \o fresh_agents(n - Len(filled), FALSE)
        ELSE filled

\* The population of the normal branch when the subtraction does not abort:
\* a wrapped difference makes num_fresh 3, and the surplus is truncated.
steady_pop(e, idxs, rng) ==
    LET n == e.pop_size
        base == steady_base(e, idxs, rng)
        num_fresh == IF Len(base) > n THEN 3 ELSE Min(3, n - Len(base))
        filled == base \o fresh_agents(num_fresh, FALSE)
    IN  IF Len(filled) < n THEN filled \o fresh_agents(n - Len(filled), FALSE)
        ELSE IF Len(filled) > n THEN SubSeq(filled, 1, n)
        ELSE filled

\* reproduce_head with the champion replaced by the best of every epoch.
reproduce_head_overwrites(e) ==
    LET idxs == sort_idxs(e.scores, 1..e.pop_size)
        best_idx == idxs[1]
        best_score == e.scores[best_idx]
    IN  [e EXCEPT !.epoch_best = Append(@, best_score),
                  !.best_score = Max(@, best_score),
                  !.champion_score = best_score,
                  !.champion_epoch = e.epoch,
                  !.champion = e.pop[best_idx],
                  !.epochs_without_improvement = 0]

\* reproduce_head keeping only the newest entry of the history.
reproduce_head_history_replaced(e) ==
    LET idxs == sort_idxs(e.scores, 1..e.pop_size)
        best_idx == idxs[1]
        best_score == e.scores[best_idx]
        e0 == [e EXCEPT !.epoch_best = <<best_score>>,
                        !.best_score = Max(@, best_score)]
    IN  IF best_score > e.champion_score
        THEN [e0 EXCEPT !.champion_score = best_score,
                        !.champion_epoch = e.epoch,
                        !.champion = e.pop[best_idx],
                        !.epochs_without_improvement = 0]
        ELSE [e0 EXCEPT !.epochs_without_improvement = @ + 1]

\* reproduce up to the choice of branch: history, best score, champion and
\* stagnation counter.
reproduce_head(e) ==
    LET idxs == sort_idxs(e.scores, 1..e.pop_size)
        best_idx == idxs[1]
        best_score == e.scores[best_idx]
        e0 == [e EXCEPT !.epoch_best = Append(@, best_score),
                        !.best_score = Max(@, best_score)]
    IN  IF best_score > e.champion_score
        THEN [e0 EXCEPT !.champion_score = best_score,
                        !.champion_epoch = e.epoch,
                        !.champion = e.pop[best_idx],
                        !.epochs_without_improvement = 0]
        ELSE [e0 EXCEPT !.epochs_without_improvement = @ + 1]

new_champion(e) ==
    e.scores[sort_idxs(e.scores, 1..e.pop_size)[1]] > e.champion_score

\* stagnation_threshold that does not grow with the restarts.
stagnation_threshold_flat(e) == BaseThreshold

stagnation_threshold(e) == BaseThreshold + e.restart_count * ThresholdStep

\* The branch reproduce takes, from the trainer reproduce_head leaves.
reproduce_branch(e, e1) ==
    IF e1.epochs_without_improvement >= stagnation_threshold(e1)
       /\ e1.champion # NoChampion
    THEN "restart"
    ELSE IF new_champion(e) /\ e1.champion # NoChampion THEN "champion"
    ELSE "steady"

\* EvoTrainer::reproduce with the draws of its rng: noise (a row per child),
\* parents (the first parent of each child of the normal branch), apples (of
\* the new games) and overflow (what the build makes of the overflowing
\* subtraction: "Panic" with overflow checks, "Wrap" without).  The result
\* is [evo, fault].
reproduce(e, rng) ==
    LET n == e.pop_size
        idxs == sort_idxs(e.scores, 1..n)
        e1 == reproduce_head(e)
        branch == reproduce_branch(e, e1)
        finish(e2, new_pop) ==
            [evo |-> reset_epoch([e2 EXCEPT !.pop = new_pop, !.epoch = @ + 1],
                                 rng.apples),
             fault |-> "None"]
    IN  CASE branch = "restart" ->
               LET rc == (IF e1.restart_count >= 5 THEN 0 ELSE e1.restart_count) + 1
                   e2 == [e1 EXCEPT !.restart_count = rc,
                                    !.epochs_without_improvement = 0]
               IN  finish(e2, restart_pop(e1.champion, rc, n, rng.noise))
          [] branch = "champion" ->
               finish([e1 EXCEPT !.restart_count = 0],
                      champion_pop(e1.champion, n, rng.noise))
          [] OTHER ->
               IF steady_overflows(e) /\ rng.overflow = "Panic"
               THEN [evo |-> e1, fault |-> "Panic"]
               ELSE finish(e1, steady_pop(e, idxs, rng))

\* The shape of the draws reproduce makes on e: the number of children that
\* get noise, whether parents are drawn and whether the subtraction
\* overflows.
repro_children(e) ==
    LET e1 == reproduce_head(e)
        branch == reproduce_branch(e, e1)
    IN  CASE branch = "restart" ->
               tier_children((IF e1.restart_count >= 5 THEN 0
                              ELSE e1.restart_count) + 1, e.pop_size)
          [] branch = "champion" -> e.pop_size - 1
          [] OTHER -> 4

repro_steady(e) == reproduce_branch(e, reproduce_head(e)) = "steady"

(***************************************************************************)
(* The training loop of main                                               *)
(***************************************************************************)

\* The closure of the parallel for_each for one (agent, game, score slot)
\* that is alive and below the target, with its draws d = [explore, rand_a,
\* apple], in the order of its statements.  The result is [agent, g, score,
\* solved, returned, a]; when update does not return, neither does the
\* closure.

\* The test that guards the store into solved_flag, asked one apple early.
reaches_target_early(g, target_score) == g.score + 1 >= target_score

\* The test that guards the store into solved_flag.
reaches_target(g, target_score) == g.score >= target_score

\* What the closure does to the agent of a game that died in this step.
on_death(agent) ==
    [agent EXCEPT !.episodes = @ + 1, !.epsilon = epsilon_decay(agent)]

\* step_learn storing the score the game had before its update.
step_learn_score_before(sel, s, g1, u, score, target_score) ==
    LET g2 == u.g
        ate == g2.score > g1.score
        died == g1.alive /\ ~g2.alive
        r == reward(died, ate, g2.last_death, Len(g2.snake),
                    apple_dist(g1), apple_dist(g2))
        ag1 == learn(sel.agent, s, sel.a, r, state_key(g2), died \/ ~g2.alive)
        ag2 == [ag1 EXCEPT !.steps = @ + 1]
        ag3 == IF died THEN on_death(ag2) ELSE ag2
    IN  IF ~u.returned
        THEN [agent |-> sel.agent, g |-> g2, score |-> score, solved |-> FALSE,
              returned |-> FALSE, a |-> sel.a]
        ELSE [agent |-> ag3, g |-> g2,
              score |-> IF g2.alive THEN g1.score ELSE score,
              solved |-> reaches_target(g2, target_score),
              returned |-> TRUE, a |-> sel.a]

\* From the reward to the stores: sel is what select_action gave, g1 the
\* game after change_dir, u what update left.
step_learn(sel, s, g1, u, score, target_score) ==
    LET g2 == u.g
        ate == g2.score > g1.score
        died == g1.alive /\ ~g2.alive
        r == reward(died, ate, g2.last_death, Len(g2.snake),
                    apple_dist(g1), apple_dist(g2))
        ag1 == learn(sel.agent, s, sel.a, r, state_key(g2), died \/ ~g2.alive)
        ag2 == [ag1 EXCEPT !.steps = @ + 1]
        ag3 == IF died THEN on_death(ag2) ELSE ag2
    IN  IF ~u.returned
        THEN [agent |-> sel.agent, g |-> g2, score |-> score, solved |-> FALSE,
              returned |-> FALSE, a |-> sel.a]
        ELSE [agent |-> ag3, g |-> g2,
              score |-> IF g2.alive THEN g2.score ELSE score,
              solved |-> reaches_target(g2, target_score),
              returned |-> TRUE, a |-> sel.a]

\* game.update() on the game after change_dir.
step_update(sel, s, g1, score, target_score, d) ==
    step_learn(sel, s, g1, update(g1, d.apple), score, target_score)

\* game.change_dir(dir_after_action(game.dir, a)).
step_turn(sel, s, g, score, target_score, d) ==
    step_update(sel, s, change_dir(g, dir_after_action(g.dir, sel.a)),
                score, target_score, d)

\* state_key and select_action, then the rest.
agent_step(agent, g, score, target_score, d) ==
    step_turn(select_action(agent, state_key(g), d.explore, d.rand_a),
              state_key(g), g, score, target_score, d)

\* skips_step without the test for a dead game.
skips_step_alive_unchecked(g, score, target_score) == score >= target_score

\* The early return of the closure.
skips_step(g, score, target_score) == ~g.alive \/ score >= target_score

\* The draws the closure can make: the two branches of select_action (the
\* gen_range draw only when exploring) and the apple draw of update.
StepDrawsOf(agent, g, k) ==
    UNION {
      LET acts == IF b THEN 0..2 ELSE {0}
      IN  UNION {
            LET sel == select_action(agent, state_key(g), b, ra)
                g1 == change_dir(g, dir_after_action(g.dir, sel.a))
            IN  {[explore |-> b, rand_a |-> ra, apple |-> p] : p \in AppleDraws(g1, k)}
            : ra \in acts}
      : b \in ExploreDraws(agent)}

StepDraws(agent, g) == StepDrawsOf(agent, g, MaxAppleDraws)

\* The scan for a unique leader: <<top1, top2, top1_idx>> after the first n
\* score slots (top1_idx = 0 stands for None).
RECURSIVE leader_scan(_, _)
leader_scan(scores, n) ==
    IF n = 0 THEN <<0, 0, 0>>
    ELSE LET t == leader_scan(scores, n - 1)
             sc == scores[n]
         IN  IF sc > t[1] THEN <<sc, t[1], n>>
             ELSE IF sc > t[2] THEN <<t[1], sc, t[3]>>
             ELSE t

\* leader_protected without the test that the leader's game is alive.
leader_protected_any(e) ==
    LET t == leader_scan(e.scores, Len(e.scores))
    IN  IF t[3] # 0 THEN t[1] > t[2] ELSE FALSE

leader_protected(e) ==
    LET t == leader_scan(e.scores, Len(e.scores))
    IN  IF t[3] # 0
        THEN t[1] > t[2] /\ (IF t[3] <= Len(e.games) THEN e.games[t[3]].alive ELSE FALSE)
        ELSE FALSE

\* len of the step loop.
step_len(e) == Min(Min(Len(e.pop), Len(e.games)), Len(e.scores))

any_unfinished(e) ==
    \E j \in 1..step_len(e) : e.games[j].alive /\ e.scores[j] < e.target_score

NoDraws == [j \in 1..PopSize |-> <<>>]

NoPre == <<>>

Snapshot(e) == [pop |-> e.pop, games |-> e.games, scores |-> e.scores]

ApplesOf(n) == [1..n -> EvoNewCells]

ManualCell == CHOOSE p \in NewGameCells : TRUE

InitEvo ==
    /\ game = new(ManualCell)
    /\ \E apples \in ApplesOf(PopSize) : evo = EvoTrainer_new(PopSize, apples)
    /\ pc = "idle"
    /\ stepped = {}
    /\ solved_flag = FALSE
    /\ to_run = 0
    /\ pre = NoPre
    /\ draws = NoDraws
    /\ toggles = 0
    /\ fault = "None"
    /\ ticks = 0

\* main: the E key; Apples are the apple draws tried for the new games and
\* max_toggles the number of presses the run is followed for.
KeyEWith(Apples, max_toggles) ==
    /\ pc = "idle" /\ fault = "None"
    /\ toggles < max_toggles
    /\ toggles' = toggles + 1
    /\ IF ~evo.training
       THEN \E apples \in Apples, p \in {ManualCell} :
              /\ evo' = [reset_epoch([evo EXCEPT !.training = TRUE, !.solved = FALSE],
                                     apples)
                           EXCEPT !.epoch = 0,
                                  !.epoch_best = <<>>,
                                  !.best_score = 0,
                                  !.epochs_without_improvement = 0]
              /\ game' = new(p)
       ELSE /\ evo' = [evo EXCEPT !.training = FALSE]
            /\ game' = game
    /\ UNCHANGED <<evo_ctl, fault, ticks>>

KeyE == KeyEWith(ApplesOf(evo.pop_size), MaxToggles)

\* main: the P key while the trainer is there.
KeyP ==
    /\ pc = "idle" /\ fault = "None"
    /\ game' = [game EXCEPT !.paused = ~game.paused]
    /\ UNCHANGED <<evo, evo_ctl, toggles, fault, ticks>>

\* main: a callback with training on enters the step loop; max_steps is the
\* number of population steps the run is followed for.
TickBeginUpTo(max_steps) ==
    /\ pc = "idle" /\ fault = "None"
    /\ evo.training /\ ~game.paused
    /\ ticks < max_steps
    /\ \E n \in 1..MaxRun : to_run' = n
    /\ pc' = "par"
    /\ stepped' = {}
    /\ solved_flag' = FALSE
    /\ pre' = Snapshot(evo)
    /\ draws' = NoDraws
    /\ UNCHANGED <<game, evo, toggles, fault, ticks>>

TickBegin == TickBeginUpTo(MaxSteps)

\* closure_args with one Q-table, that of the first slot, shared by all.
closure_args_shared(e, i) == [agent |-> e.pop[1], g |-> e.games[i], score |-> e.scores[i]]

\* What the zip of the three par_iter_mut hands to closure i.
closure_args(e, i) == [agent |-> e.pop[i], g |-> e.games[i], score |-> e.scores[i]]

\* One closure of the parallel for_each, its draws taken from Draws.
\* A closure whose update does not return stays in the for_each for ever.
StepAgentOn(i, Draws) ==
    /\ pc = "par" /\ fault # "Panic"
    /\ i \in 1..step_len(evo) /\ i \notin stepped /\ draws[i] = <<>>
    /\ \E c \in {closure_args(evo, i)} :
         IF skips_step(c.g, c.score, evo.target_score)
         THEN /\ stepped' = stepped \cup {i}
              /\ UNCHANGED <<evo, solved_flag, draws, fault>>
         ELSE \E d \in Draws :
                \E o \in {agent_step(c.agent, c.g, c.score, evo.target_score, d)} :
                  /\ evo' = [evo EXCEPT !.pop[i] = o.agent,
                                        !.games[i] = o.g,
                                        !.scores[i] = o.score]
                  /\ solved_flag' = (solved_flag \/ o.solved)
                  /\ draws' = [draws EXCEPT ![i] = d]
                  /\ stepped' = IF o.returned THEN stepped \cup {i} ELSE stepped
                  /\ fault' = IF o.returned THEN fault ELSE "Hang"
    /\ UNCHANGED <<game, pc, to_run, pre, toggles, ticks>>

StepAgent(i) == StepAgentOn(i, StepDraws(evo.pop[i], evo.games[i]))

\* joined for a for_each that returns with the first closure.
joined_first(e, done) == done # {}

\* The for_each returns when every closure has returned.
joined(e, done) == done = 1..step_len(e)

\* all_done of the step loop, from the flag and the trainer after the loads.
all_done(e, flag) == flag \/ ~any_unfinished(e)

\* The trainer after the flag is read and steps_taken is counted.
after_step(e, flag) ==
    [e EXCEPT !.solved = IF flag THEN TRUE ELSE @,
              !.training = IF flag THEN FALSE ELSE @,
              !.steps_taken = @ + 1]

\* epoch_ends with the step limit tested before the step is counted.
epoch_ends_uncounted(e, flag) ==
    all_done(e, flag) \/ (e.steps_taken >= e.step_limit /\ ~leader_protected(e))

epoch_ends(e, flag) ==
    LET e1 == after_step(e, flag)
    IN  all_done(e, flag) \/ (e1.steps_taken >= e1.step_limit /\ ~leader_protected(e1))

\* main: after the for_each has joined, the rest of one loop iteration.
DecideUpTo(max_steps) ==
    /\ pc = "par" /\ fault = "None"
    /\ joined(evo, stepped)
    /\ evo' = after_step(evo, solved_flag)
    /\ IF epoch_ends(evo, solved_flag)
       THEN /\ pc' = "reproduce"
            /\ pre' = NoPre
            /\ UNCHANGED to_run
       ELSE IF to_run > 1 /\ ticks + 1 < max_steps
       THEN /\ pc' = "par"
            /\ to_run' = to_run - 1
            /\ pre' = Snapshot(evo')
       ELSE /\ pc' = "idle"
            /\ to_run' = 0
            /\ pre' = NoPre
    /\ stepped' = {}
    /\ solved_flag' = FALSE
    /\ draws' = NoDraws
    /\ ticks' = ticks + 1
    /\ UNCHANGED <<game, toggles, fault>>

Decide == DecideUpTo(MaxSteps)

\* The draws reproduce can make on e: noise and parents only for the
\* children that stay in the population.  Noise(k), Parents(k, m) and
\* Apples(n) are the draws tried for k children, for k parents among the
\* first m and for n new games.
ReproRngs(e, Noise(_), Parents(_, _), Apples(_)) ==
    LET n == e.pop_size
        steady == repro_steady(e)
        k == IF steady THEN Min(4, Max(n - Min(3, n), 0)) ELSE repro_children(e)
        len == IF steady THEN 4 ELSE k
    IN  {[noise |-> [c \in 1..len |-> IF c <= k THEN nz[c] ELSE 1],
          parents |-> [c \in 1..len |-> IF c <= k THEN pa[c] ELSE 1],
          apples |-> ap,
          overflow |-> ov] :
           nz \in Noise(k),
           pa \in IF steady THEN Parents(k, Min(3, n)) ELSE {[c \in 1..k |-> 1]},
           ap \in Apples(n),
           ov \in IF steady /\ steady_overflows(e) THEN {"Panic", "Wrap"} ELSE {"Wrap"}}

AnyNoise(k) == [1..k -> NoiseIds]

AnyParents(k, m) == [1..k -> 1..m]

\* main: the epoch ended; reproduce with one of Rngs, then leave the step
\* loop.
ReproduceWith(Rngs) ==
    /\ pc = "reproduce" /\ fault = "None"
    /\ \E rng \in Rngs :
         \E r \in {reproduce(evo, rng)} :
             /\ evo' = r.evo
             /\ fault' = r.fault
    /\ pc' = "idle"
    /\ to_run' = 0
    /\ UNCHANGED <<game, stepped, solved_flag, pre, draws, toggles, ticks>>

Reproduce == ReproduceWith(ReproRngs(evo, AnyNoise, AnyParents, ApplesOf))

NextEvo == KeyE \/ KeyP \/ TickBegin \/ (\E i \in 1..PopSize : StepAgent(i))
           \/ Decide \/ Reproduce

SpecEvo == InitEvo /\ [][NextEvo]_vars

(***************************************************************************)
(* The training loop followed to the last apple.  For the first steps of   *)
(* an epoch the draws are those of one run: slot 1 explores with the       *)
(* actions of LeaderScript, the other slots with those of OtherScript, and *)
(* every apple lands on the nearest free cell.  On the 4 x 2 grid that run *)
(* takes slot 1 to a snake one cell short of the grid; after the script    *)
(* every draw is tried.                                                    *)
(***************************************************************************)

LeaderScript == <<0, 0, 1, 1>>

OtherScript == <<0, 1>>

ScriptDraws(e, i) ==
    LET t == e.steps_taken + 1
        script == IF i = 1 THEN LeaderScript ELSE OtherScript
    IN  IF t <= Len(script)
        THEN {d \in StepDrawsOf(e.pop[i], e.games[i], 1) :
                d.explore /\ d.rand_a = script[t]}
        ELSE StepDraws(e.pop[i], e.games[i])

ScriptedAgent(i) == StepAgentOn(i, ScriptDraws(evo, i))

EndgameKeyE == KeyEWith(ApplesOf(evo.pop_size), MaxEndgameToggles)

EndgameTick == TickBeginUpTo(MaxEndgameSteps)

EndgameDecide == DecideUpTo(MaxEndgameSteps)

NextEndgame == EndgameKeyE \/ KeyP \/ EndgameTick \/ (\E i \in 1..PopSize : ScriptedAgent(i))
               \/ EndgameDecide \/ Reproduce

SpecEndgame == InitEvo /\ [][NextEndgame]_vars

(***************************************************************************)
(* reproduce over every branch.  The steps of an epoch are replaced by     *)
(* their outcome, a vector of score slots (reproduce reads nothing else of *)
(* an epoch), the population size ranges over 1..MaxPop, and one draw is   *)
(* shared by all children and one by all new games.                        *)
(***************************************************************************)

SameNoise(k) == {[c \in 1..k |-> z] : z \in NoiseIds}

\* Every child descends from the last of the elite.
LastParents(k, m) == {[c \in 1..k |-> m]}

SameApples(n) == {[j \in 1..n |-> p] : p \in NearestFree(new(Pos(0, 0)), 1)}

\* The score slots an epoch can end with: the last slot holds the top score,
\* which is 0 or one more than the champion's (0 once that is MaxScore), the
\* others all 0 or all equal to it.
EpochScores(e) ==
    {[i \in 1..e.pop_size |-> IF i = j \/ tied THEN top ELSE 0] :
       j \in {e.pop_size},
       top \in IF e.champion_score < MaxScore THEN {0, e.champion_score + 1}
               ELSE {0},
       tied \in BOOLEAN}

InitRepro ==
    /\ game = new(ManualCell)
    /\ \E n \in 1..MaxPop :
         \E apples \in SameApples(n) : evo = EvoTrainer_new(n, apples)
    /\ pc = "idle"
    /\ stepped = {}
    /\ solved_flag = FALSE
    /\ to_run = 0
    /\ pre = NoPre
    /\ draws = NoDraws
    /\ toggles = 0
    /\ fault = "None"
    /\ ticks = 0

ReproKeyE == KeyEWith(SameApples(evo.pop_size), MaxReproToggles)

\* The steps of one epoch, up to the call of reproduce.
EpochPlayedWith(Scores, max_epochs) ==
    /\ pc = "idle" /\ fault = "None"
    /\ evo.training /\ ~game.paused
    /\ ticks < max_epochs
    /\ \E sc \in Scores : evo' = [evo EXCEPT !.scores = sc]
    /\ pc' = "reproduce"
    /\ ticks' = ticks + 1
    /\ UNCHANGED <<game, stepped, solved_flag, to_run, pre, draws, toggles, fault>>

EpochPlayed == EpochPlayedWith(EpochScores(evo), MaxReproEpoch)

ReproReproduce == ReproduceWith(ReproRngs(evo, SameNoise, LastParents, SameApples))

NextRepro == ReproKeyE \/ EpochPlayed \/ ReproReproduce

SpecRepro == InitRepro /\ [][NextRepro]_vars

(***************************************************************************)
(* reproduce driven directly on agents that have learnt: every agent has   *)
(* taken one step of the training loop, so no Q-table is empty, and        *)
(* training was then switched off and on again.                            *)
(***************************************************************************)

\* The agent after its first step on a new game whose apple is p, when it
\* explored and drew action a.
FirstStepAgent(p, a) ==
    agent_step(QAgent_new, new(p), 0, Max(GRID_WIDTH * GRID_HEIGHT - 3, 0),
               CHOOSE d \in StepDrawsOf(QAgent_new, new(p), 1) :
                   d.explore /\ d.rand_a = a).agent

\* All children descend from the same one of the elite.
SameParents(k, m) == {[c \in 1..k |-> p] : p \in 1..m}

InitSteady ==
    /\ game = new(ManualCell)
    /\ \E n \in 1..MaxSteadyPop :
         \E apples \in SameApples(n) :
           evo = [EvoTrainer_new(n, apples) EXCEPT
                    !.training = TRUE,
                    !.pop = [j \in 1..n |-> FirstStepAgent(apples[j], j % 3)]]
    /\ pc = "idle"
    /\ stepped = {}
    /\ solved_flag = FALSE
    /\ to_run = 0
    /\ pre = NoPre
    /\ draws = NoDraws
    /\ toggles = 0
    /\ fault = "None"
    /\ ticks = 0

\* The score slots an epoch of such a run can end with: the last slot holds
\* the top score, at most one more than the champion's; the second slot
\* holds 0 or the same; the others 0.
SteadyScores(e) ==
    {[i \in 1..e.pop_size |->
        IF i = e.pop_size THEN top ELSE IF i = 2 /\ tied THEN top ELSE 0] :
       top \in 0..Min(e.champion_score + 1, MaxScore),
       tied \in BOOLEAN}

SteadyEpochPlayed == EpochPlayedWith(SteadyScores(evo), MaxSteadyEpoch)

SteadyReproduce == ReproduceWith(ReproRngs(evo, SameNoise, SameParents, SameApples))

NextSteady == SteadyEpochPlayed \/ SteadyReproduce

SpecSteady == InitSteady /\ [][NextSteady]_vars

(***************************************************************************)
(* The manually played game                                                *)
(***************************************************************************)

\* The trainer as main builds it, never switched on.
IdleEvo == EvoTrainer_new(PopSize, [j \in 1..PopSize |-> ManualCell])

InitGame ==
    /\ \E p \in NewGameCells : game = new(p)
    /\ evo = IdleEvo
    /\ pc = "idle"
    /\ stepped = {}
    /\ solved_flag = FALSE
    /\ to_run = 0
    /\ pre = NoPre
    /\ draws = NoDraws
    /\ toggles = 0
    /\ fault = "None"
    /\ ticks = 0

\* main: the real-time tick of the manual game.
ManualTick ==
    /\ fault = "None"
    /\ ~evo.training
    /\ ticks < MaxUpdates
    /\ \E p \in UpdateDraws(game) :
         LET r == update(game, p)
         IN  /\ game' = r.g
             /\ fault' = IF r.returned THEN "None" ELSE "Hang"
    /\ ticks' = ticks + 1
    /\ UNCHANGED <<evo, evo_ctl, toggles>>

\* main: a direction key.
KeyDir ==
    /\ fault = "None"
    /\ \E d \in Dirs : game' = change_dir(game, d)
    /\ UNCHANGED <<evo, evo_ctl, toggles, fault, ticks>>

\* main: the P key.
KeyPause ==
    /\ fault = "None"
    /\ game' = [game EXCEPT !.paused = ~game.paused]
    /\ UNCHANGED <<evo, evo_ctl, toggles, fault, ticks>>

\* main: the R key, honoured only for a dead game.
KeyRestart ==
    /\ fault = "None"
    /\ ~game.alive
    /\ \E p \in NewGameCells : game' = new(p)
    /\ UNCHANGED <<evo, evo_ctl, toggles, fault, ticks>>

NextGame == ManualTick \/ KeyDir \/ KeyPause \/ KeyRestart

SpecGame == InitGame /\ [][NextGame]_vars

(***************************************************************************)
(* The calls of Game.  A game is built by new_with_wrap with either wall   *)
(* mode and then takes update, change_dir and writes of its pause flag in  *)
(* any order.                                                              *)
(***************************************************************************)

InitCalls ==
    /\ \E w \in BOOLEAN, p \in NewGameCells : game = new_with_wrap(w, p)
    /\ evo = IdleEvo
    /\ pc = "idle"
    /\ stepped = {}
    /\ solved_flag = FALSE
    /\ to_run = 0
    /\ pre = NoPre
    /\ draws = NoDraws
    /\ toggles = 0
    /\ fault = "None"
    /\ ticks = 0

NextCalls == ManualTick \/ KeyDir \/ KeyPause

SpecCalls == InitCalls /\ [][NextCalls]_vars

(***************************************************************************)
(* The epsilon of one agent.  The three operations that write epsilon are  *)
(* applied to the one agent of a trainer in any order and any number of    *)
(* times; mutate_qagent counts nothing, so the decay can be followed down  *)
(* to min_epsilon.                                                         *)
(***************************************************************************)

InitEps ==
    /\ game = new(ManualCell)
    /\ evo = EvoTrainer_new(1, <<ManualCell>>)
    /\ pc = "idle"
    /\ stepped = {}
    /\ solved_flag = FALSE
    /\ to_run = 0
    /\ pre = NoPre
    /\ draws = NoDraws
    /\ toggles = 0
    /\ fault = "None"
    /\ ticks = 0

\* The agent's game died in a step of the training loop.
EpsDeath ==
    /\ evo.pop[1].episodes < MaxEpisodes
    /\ evo' = [evo EXCEPT !.pop[1] = on_death(@)]
    /\ UNCHANGED <<game, evo_ctl, toggles, fault, ticks>>

\* reproduce mutated the agent; its Q-table is empty, so no noise is drawn.
EpsMutate ==
    /\ evo' = [evo EXCEPT !.pop[1] = mutate_qagent(@, NoiseRow(150, 2))]
    /\ UNCHANGED <<game, evo_ctl, toggles, fault, ticks>>

\* A restart of reproduce boosted the agent.
EpsBoost ==
    /\ evo' = [evo EXCEPT !.pop[1] = boost_exploration(@)]
    /\ UNCHANGED <<game, evo_ctl, toggles, fault, ticks>>

NextEps == EpsDeath \/ EpsMutate \/ EpsBoost

SpecEps == InitEps /\ [][NextEps]_vars

(***************************************************************************)
(* The training loop with an alternate policy backend (NPU or DQN) active. *)
(* npu_mode and dqn_mode are only ever true with their object loaded: a    *)
(* failed load clears the mode again.  The two paths step the games one    *)
(* after the other and leave the QAgents of the population alone; the DQN  *)
(* path also feeds its own network, which is no part of the trainer.       *)
(***************************************************************************)

\* policy.select_action(s).unwrap_or(1): the backend's answer, or 1 when
\* the call returns Err.
backend_action(d) == IF d.failed THEN 1 ELSE d.net_a

\* One iteration of the backend's loop over the games.
backend_step(g, score, d) ==
    LET u == update(change_dir(g, dir_after_action(g.dir, backend_action(d))),
                    d.apple)
    IN  [g |-> u.g,
         score |-> IF u.g.alive THEN u.g.score ELSE score,
         returned |-> u.returned]

\* The inputs of one iteration: whether select_action failed, the action the
\* network answered, the apple draw of update; explore and rand_a are what
\* the rng would hand to QAgent::select_action, which the backend paths
\* never call.
BackendDraws(agent, g) ==
    UNION {
      {[failed |-> f, net_a |-> na, explore |-> b, rand_a |-> ra, apple |-> p] :
         p \in AppleDraws(change_dir(g, dir_after_action(g.dir, na)),
                          MaxAppleDraws)}
      : f \in BOOLEAN, na \in 0..2, b \in ExploreDraws(agent), ra \in 0..2}

\* BackendDraws without the values that change nothing: the answer of a
\* failed call and the uniform draw of a greedy choice.
BackendDrawsUsed(agent, g) ==
    {d \in BackendDraws(agent, g) :
       (d.failed => d.net_a = 1) /\ (~d.explore => d.rand_a = 0)}

\* The trainer as the backend finds it: DQN is switched on with solid walls
\* and training started, NPU leaves the world as it is.
InitBackend ==
    /\ game = new(ManualCell)
    /\ \E apples \in ApplesOf(PopSize) : \E dqn \in BOOLEAN :
         evo = [(IF dqn
                 THEN set_wrap_world(EvoTrainer_new(PopSize, apples), FALSE, apples)
                 ELSE EvoTrainer_new(PopSize, apples))
                EXCEPT !.training = TRUE]
    /\ pc = "idle"
    /\ stepped = {}
    /\ solved_flag = FALSE
    /\ to_run = 0
    /\ pre = NoPre
    /\ draws = NoDraws
    /\ toggles = 0
    /\ fault = "None"
    /\ ticks = 0

\* Iteration i of the backend's `for i in 0..len`, after the iterations
\* before it.
BackendAgentOn(i, Draws) ==
    /\ pc = "par" /\ fault = "None"
    /\ i \in 1..step_len(evo) /\ stepped = 1..(i - 1)
    /\ IF skips_step(evo.games[i], evo.scores[i], evo.target_score)
       THEN /\ stepped' = stepped \cup {i}
            /\ UNCHANGED <<evo, draws, fault>>
       ELSE \E d \in Draws :
              \E o \in {backend_step(evo.games[i], evo.scores[i], d)} :
                /\ evo' = [evo EXCEPT !.games[i] = o.g, !.scores[i] = o.score]
                /\ draws' = [draws EXCEPT ![i] = d]
                /\ stepped' = IF o.returned THEN stepped \cup {i} ELSE stepped
                /\ fault' = IF o.returned THEN fault ELSE "Hang"
    /\ UNCHANGED <<game, pc, solved_flag, to_run, pre, toggles, ticks>>

BackendAgent(i) == BackendAgentOn(i, BackendDrawsUsed(evo.pop[i], evo.games[i]))

BackendTickBegin == TickBeginUpTo(MaxBackendSteps)

BackendDecide == DecideUpTo(MaxBackendSteps)

NextBackend == BackendTickBegin \/ (\E i \in 1..PopSize : BackendAgent(i))
               \/ BackendDecide \/ Reproduce

SpecBackend == InitBackend /\ [][NextBackend]_vars

(***************************************************************************)
(* One epoch of the backend paths followed without a bound on its steps.   *)
(* The backend paths leave the agents alone, so games and score slots are  *)
(* all that changes from step to step; steps_taken is counted up to        *)
(* step_limit, from where on the one test the loop makes of it             *)
(* (steps_taken >= step_limit) has the same answer for ever.  The event    *)
(* loop keeps calling back and every for_each joins: each step that can be *)
(* taken is taken in the end.                                              *)
(***************************************************************************)

LiveTickBegin ==
    /\ evo.epoch < MaxLiveEpoch
    /\ TickBeginUpTo(1)

LiveDecide ==
    /\ pc = "par" /\ fault = "None"
    /\ joined(evo, stepped)
    /\ evo' = [after_step(evo, solved_flag) EXCEPT
                 !.steps_taken = Min(@, evo.step_limit)]
    /\ IF epoch_ends(evo, solved_flag)
       THEN /\ pc' = "reproduce"
            /\ pre' = NoPre
            /\ UNCHANGED to_run
       ELSE IF to_run > 1
       THEN /\ pc' = "par"
            /\ to_run' = to_run - 1
            /\ pre' = Snapshot(evo')
       ELSE /\ pc' = "idle"
            /\ to_run' = 0
            /\ pre' = NoPre
    /\ stepped' = {}
    /\ solved_flag' = FALSE
    /\ draws' = NoDraws
    /\ UNCHANGED <<game, toggles, fault, ticks>>

\* The inputs of one iteration in this run: no call of the backend fails,
\* the network steers the game of slot 1 as it likes and answers straight
\* for every other slot.
LiveDraws(i, agent, g) ==
    {d \in BackendDrawsUsed(agent, g) :
       ~d.failed /\ ~d.explore /\ (i > 1 => d.net_a = 1)}

LiveAgent(i) == BackendAgentOn(i, LiveDraws(i, evo.pop[i], evo.games[i]))

LiveAgents == \E i \in 1..PopSize : LiveAgent(i)

NextLive == LiveTickBegin \/ LiveAgents \/ LiveDecide \/ ReproReproduce

\* An iteration of the loop over the games can be taken: the loop has begun
\* and has not been through every game.
AgentsEnabled == pc = "par" /\ fault = "None" /\ ~joined(evo, stepped)

\* Weak fairness of the callback, of the loop over the games and of the
\* decision that follows it; for the loop over the games it is written out,
\* with AgentsEnabled for ENABLED <<LiveAgents>>_vars.
LiveFairness ==
    /\ WF_vars(LiveTickBegin)
    /\ WF_vars(LiveDecide)
    /\ ([]<>(~AgentsEnabled) \/ []<><<LiveAgents>>_vars)

SpecLive == InitBackend /\ [][NextLive]_vars /\ LiveFairness

(***************************************************************************)
(* Properties                                                              *)
(***************************************************************************)

\* The largest score slot.
TopScore(e) ==
    CHOOSE m \in {e.scores[j] : j \in 1..Len(e.scores)} :
      \A j \in 1..Len(e.scores) : m >= e.scores[j]

\* No agent is alive with a score slot below the target.
AllAgentsDone(e) ==
    \A j \in 1..Len(e.scores) : ~(e.games[j].alive /\ e.scores[j] < e.target_score)

\* Exactly one slot is strictly above every other slot, and its game is alive.
UniqueLiveLeader(e) ==
    \E i \in 1..Len(e.scores) :
      /\ \A j \in (1..Len(e.scores)) \ {i} : e.scores[i] > e.scores[j]
      /\ e.games[i].alive

\* Slot i was alive and below the target when the current step began.
Eligible(i) == pre.games[i].alive /\ pre.scores[i] < evo.target_score

\* The step that ends one iteration of the step loop.
DecisionStep == pc = "par" /\ ticks' # ticks

\* C1: whatever the population size and the score slots, and whichever
\* branch reproduce took, pop, games and scores all have pop_size entries.
C1_PopulationSizeKept ==
    /\ Len(evo.pop) = evo.pop_size
    /\ Len(evo.games) = evo.pop_size
    /\ Len(evo.scores) = evo.pop_size

\* reproduce has returned from the fifth restart tier with a population of
\* ten or more.
C1_Witness ==
    /\ pc = "idle" /\ fault = "None"
    /\ evo.epoch > 0 /\ evo.restart_count = 5 /\ evo.pop_size >= 10
    /\ Len(evo.pop) = evo.pop_size

\* C2: champion_score never decreases; it changes only in a reproduce call
\* whose top score is strictly greater, and then it becomes that top score.
C2_ChampionScoreMonotone ==
    [][/\ evo'.champion_score >= evo.champion_score
       /\ evo'.champion_score # evo.champion_score
            => /\ pc = "reproduce"
               /\ TopScore(evo) > evo.champion_score
               /\ evo'.champion_score = TopScore(evo)
       /\ (pc = "reproduce" /\ TopScore(evo) > evo.champion_score)
            => evo'.champion_score = TopScore(evo)]_vars

\* A champion was recorded, training was switched off and on again, and a
\* later epoch with a lower top score has gone through reproduce.
C2_Witness ==
    /\ toggles >= 3 /\ evo.champion_score > 0
    /\ Len(evo.epoch_best) > 0
    /\ evo.epoch_best[Len(evo.epoch_best)] < evo.champion_score

\* C3: in one population step a slot that was alive and below the target has
\* had its game advanced by one update and one Q-value learnt (steps counted
\* once, no other Q-value touched); any other slot is as it was.
C3_OneStepPerEligibleAgent ==
    pc = "par" =>
      \A i \in stepped :
        IF Eligible(i)
        THEN LET s == state_key(pre.games[i])
                 a == select_action(pre.pop[i], s, draws[i].explore,
                                    draws[i].rand_a).a
                 g1 == change_dir(pre.games[i],
                                  dir_after_action(pre.games[i].dir, a))
                 old == pre.pop[i].q
                 now == evo.pop[i].q
             IN  /\ evo.games[i] = update(g1, draws[i].apple).g
                 /\ evo.pop[i].steps = pre.pop[i].steps + 1
                 /\ DOMAIN now = (DOMAIN old) \cup {s}
                 /\ \A k \in DOMAIN now : \A j \in 1..3 :
                      (k # s \/ j # a + 1)
                        => now[k][j] = IF k \in DOMAIN old THEN old[k][j] ELSE 0
        ELSE /\ evo.pop[i] = pre.pop[i]
             /\ evo.games[i] = pre.games[i]
             /\ evo.scores[i] = pre.scores[i]

\* A step has joined in which one slot was stepped and another, its game
\* dead, was passed over.
C3_Witness ==
    /\ pc = "par" /\ joined(evo, stepped)
    /\ \E i \in stepped : Eligible(i) /\ evo.pop[i].steps = pre.pop[i].steps + 1
    /\ \E i \in stepped : ~pre.games[i].alive

\* C4: whatever the order of the closures, slot i after its closure is what
\* the closure makes of slot i as the step began and of its own draws, and a
\* slot whose closure has not run is as the step began.
C4_SlotsIndependent ==
    pc = "par" =>
      \A i \in 1..step_len(evo) :
        IF draws[i] # <<>>
        THEN \E o \in {agent_step(pre.pop[i], pre.games[i], pre.scores[i],
                                  evo.target_score, draws[i])} :
               /\ evo.pop[i] = o.agent
               /\ evo.games[i] = o.g
               /\ evo.scores[i] = o.score
        ELSE /\ evo.pop[i] = pre.pop[i]
             /\ evo.games[i] = pre.games[i]
             /\ evo.scores[i] = pre.scores[i]

\* The closure of the last slot has run and learnt before that of the first.
C4_Witness ==
    /\ pc = "par"
    /\ PopSize \in stepped /\ 1 \notin stepped
    /\ draws[PopSize] # <<>> /\ draws[1] = <<>>
    /\ evo.pop[PopSize] # pre.pop[PopSize]
    /\ pre.pop[1].steps > 0

C6_Barrier ==
    [][/\ (evo'.steps_taken = evo.steps_taken + 1 \/ pc' = "reproduce")
            => pc = "par" /\ \A i \in 1..step_len(evo) : i \in stepped
       /\ pc = "reproduce"
            => /\ stepped = {} /\ draws = NoDraws
               /\ stepped' = {} /\ draws' = NoDraws
               /\ pc' = "idle"
       /\ evo'.epoch = evo.epoch + 1 => pc = "reproduce"]_vars

\* reproduce is about to run at the end of a step in which a closure ran.
C6_Witness ==
    /\ pc = "reproduce" /\ fault = "None"
    /\ evo.steps_taken > 0
    /\ \E i \in 1..step_len(evo) : evo.pop[i].steps > 0

\* C7: every population step counts steps_taken up by exactly one, and goes
\* on to reproduce exactly when every agent is done or the count has reached
\* step_limit with no leader protected.
C7_EpochEnd ==
    [][/\ DecisionStep
            => /\ evo'.steps_taken = evo.steps_taken + 1
               /\ pc' = "reproduce"
                    <=> \/ AllAgentsDone(evo)
                        \/ /\ evo'.steps_taken >= evo.step_limit
                           /\ ~UniqueLiveLeader(evo)
       /\ evo'.steps_taken # evo.steps_taken
            => DecisionStep \/ evo'.steps_taken = 0]_vars

\* The step limit has ended an epoch in which an agent is still playing.
C7_Witness ==
    /\ pc = "reproduce"
    /\ evo.steps_taken = evo.step_limit
    /\ ~AllAgentsDone(evo)

\* C8: leader_protected holds exactly when one slot is strictly above every
\* other and its game is alive; while it holds and an agent is still
\* playing, a step does not go on to reproduce.
C8_LeaderProtection ==
    /\ [](leader_protected(evo) <=> UniqueLiveLeader(evo))
    /\ [][(DecisionStep /\ leader_protected(evo) /\ ~AllAgentsDone(evo))
            => pc' # "reproduce"]_vars

\* The epoch goes on past the step limit under a protected leader.
C8_Witness ==
    /\ pc = "idle" /\ evo.training
    /\ evo.steps_taken >= evo.step_limit
    /\ leader_protected(evo)

\* C9: whenever a game's score has reached target_score, either the closure
\* that took it there has stored the flag of the step that is under way, or
\* the trainer is solved with training off.
C9_SolvedEntered ==
    (\E i \in 1..Len(evo.games) : evo.games[i].score >= evo.target_score)
      => \/ pc = "par" /\ solved_flag
         \/ evo.solved /\ ~evo.training

\* C10: when the snake has eaten its way onto every cell of the grid, update
\* has returned.
C10_UpdateReturns ==
    Len(game.snake) = GRID_WIDTH * GRID_HEIGHT => fault # "Hang"

\* A game as a constructor leaves it: three cells, heading Right, nothing
\* eaten, alive and running.
FreshGame(g) ==
    /\ Len(g.snake) = 3 /\ g.dir = "Right" /\ g.score = 0
    /\ g.alive /\ ~g.paused /\ g.last_death = "None"

\* C11: a press of E keeps pop, games and scores at pop_size entries; a
\* press that switches training off changes the training flag and nothing
\* else; a press that switches it on clears solved, epoch, steps_taken,
\* best_score, epochs_without_improvement, epoch_best, every score slot and
\* every game, and leaves the agents, champion, champion_score and
\* restart_count as they were.
C11_ToggleFrame ==
    [][toggles' # toggles =>
         /\ evo'.pop_size = evo.pop_size
         /\ Len(evo'.pop) = evo.pop_size
         /\ Len(evo'.games) = evo.pop_size
         /\ Len(evo'.scores) = evo.pop_size
         /\ IF evo.training
            THEN evo' = [evo EXCEPT !.training = FALSE]
            ELSE /\ evo'.training /\ ~evo'.solved
                 /\ evo'.epoch = 0 /\ evo'.steps_taken = 0
                 /\ evo'.best_score = 0
                 /\ evo'.epochs_without_improvement = 0
                 /\ evo'.epoch_best = <<>>
                 /\ \A j \in 1..evo.pop_size :
                      evo'.scores[j] = 0 /\ FreshGame(evo'.games[j])
                 /\ evo'.pop = evo.pop
                 /\ evo'.champion = evo.champion
                 /\ evo'.champion_score = evo.champion_score
                 /\ evo'.restart_count = evo.restart_count]_vars

\* Training was switched on again over a population that has learnt and a
\* champion that was recorded.
C11_Witness ==
    /\ pc = "idle" /\ evo.training
    /\ evo.epoch = 0 /\ evo.steps_taken = 0
    /\ evo.champion_score > 0 /\ evo.champion # NoChampion
    /\ \E i \in 1..evo.pop_size : DOMAIN evo.pop[i].q # {}

\* The cells of the snake sequence.
BodyCells(g) == {g.snake[i] : i \in 1..Len(g.snake)}

\* The cell one step from p in direction d, off the grid or not.
StepFrom(p, d) ==
    CASE d = "Up" -> Pos(p.x, p.y - 1)
      [] d = "Down" -> Pos(p.x, p.y + 1)
      [] d = "Left" -> Pos(p.x - 1, p.y)
      [] d = "Right" -> Pos(p.x + 1, p.y)

InGrid(p) == p.x \in 0..(GRID_WIDTH - 1) /\ p.y \in 0..(GRID_HEIGHT - 1)

\* The cell on the opposite edge of the same row or column.
Wrapped(p) == Pos(p.x % GRID_WIDTH, p.y % GRID_HEIGHT)

\* The cell the head of g is about to enter.
Target(g) ==
    IF g.wrap_world THEN Wrapped(StepFrom(Head(g.snake), g.dir))
    ELSE StepFrom(Head(g.snake), g.dir)

\* The game is alive and not paused.
Running(g) == g.alive /\ ~g.paused

\* A step that is one call of update on the manually played game.
UpdateStep == ticks' # ticks

\* The opposite of a heading.
OppositeOf(d) ==
    CHOOSE o \in Dirs :
      <<d, o>> \in {<<"Up", "Down">>, <<"Down", "Up">>,
                    <<"Left", "Right">>, <<"Right", "Left">>}

\* C12: an update whose head would enter a cell of the snake, the tail cell
\* included, kills the game with SelfCollision and changes nothing else,
\* whether or not the apple is on that cell.
C12_SelfCollision ==
    [][(UpdateStep /\ Running(game) /\ Target(game) \in BodyCells(game))
         => game' = [game EXCEPT !.alive = FALSE,
                                 !.last_death = "SelfCollision"]]_vars

\* A game has died of running into its own tail cell.
C12_Witness ==
    /\ ~game.alive /\ game.last_death = "SelfCollision"
    /\ Len(game.snake) >= 4
    /\ Target(game) = game.snake[Len(game.snake)]

\* C13: an update that takes the head off an edge puts it on the opposite
\* edge of the same row or column and keeps the game alive when the world
\* wraps and that cell is free; when the world has walls it kills the game
\* with Wall and changes nothing else.
C13_EdgeMove ==
    [][(UpdateStep /\ Running(game)
        /\ ~InGrid(StepFrom(Head(game.snake), game.dir)))
         => IF game.wrap_world
            THEN Target(game) \notin BodyCells(game)
                   => /\ game'.alive
                      /\ Head(game'.snake) = Target(game)
                      /\ \/ Head(game'.snake).x = Head(game.snake).x
                         \/ Head(game'.snake).y = Head(game.snake).y
            ELSE game' = [game EXCEPT !.alive = FALSE,
                                      !.last_death = "Wall"]]_vars

\* A game with walls has died on a wall.
C13_Witness ==
    /\ ~game.wrap_world /\ ~game.alive /\ game.last_death = "Wall"
    /\ ~InGrid(StepFrom(Head(game.snake), game.dir))

\* C14: an update that leaves the game alive adds one to score and one to
\* the length of the snake when the head enters the apple cell and leaves
\* both as they were otherwise; in every state the length is 3 + score.
C14_LengthTracksScore ==
    /\ [](Len(game.snake) = 3 + game.score)
    /\ [][(UpdateStep /\ Running(game) /\ game'.alive)
            => IF Target(game) = game.apple
               THEN /\ game'.score = game.score + 1
                    /\ Len(game'.snake) = Len(game.snake) + 1
               ELSE /\ game'.score = game.score
                    /\ Len(game'.snake) = Len(game.snake)]_vars

\* A game has eaten twice and has also moved without eating.
C14_Witness ==
    /\ game.alive /\ game.score >= 2 /\ fault = "None"
    /\ Head(game.snake) # game.apple
    /\ ticks > game.score + 1

\* C15: on every game and for every requested heading, change_dir keeps the
\* heading when the request is its opposite and adopts the request
\* otherwise, changes no other field, and agrees with the change_dir of
\* game.rs.
C15_ChangeDir ==
    \A n \in Dirs :
      /\ change_dir(game, n) = IF n = OppositeOf(game.dir) THEN game
                               ELSE [game EXCEPT !.dir = n]
      /\ game_rs_change_dir(game.dir, n) = change_dir(game, n).dir

\* A turn was taken before the first update.
C15_Witness == ticks = 0 /\ game.dir = "Up" /\ game.alive

\* The headings of the move that took the neck to the head.
LastMoves(g) ==
    {d \in Dirs :
       Head(g.snake) = IF g.wrap_world THEN Wrapped(StepFrom(g.snake[2], d))
                       ELSE StepFrom(g.snake[2], d)}

\* The heading of g is the reverse of its last move.
Reverses(g) == OppositeOf(g.dir) \in LastMoves(g) /\ g.dir \notin LastMoves(g)

\* C16: once the snake has moved, no update is made with the heading
\* opposite to the last move, whatever direction keys came in between.
C16_NeverReverses ==
    [][(UpdateStep /\ Running(game) /\ ticks > 0
        /\ game.snake # new(ManualCell).snake)
         => ~Reverses(game)]_vars

\* C17: an update of a game that is dead or paused changes nothing of it.
C17_InactiveNoOp ==
    [][(UpdateStep /\ ~Running(game)) => game' = game]_vars

\* The first update came while the game was paused and left the snake where
\* the constructor put it.
C17_Witness ==
    /\ ticks = 1 /\ game.paused /\ game.alive
    /\ game.snake = new(ManualCell).snake

\* C18: the set mirror holds exactly the cells of the snake sequence, and no
\* cell is in the sequence twice.
C18_SetMirrorsSnake ==
    /\ game.snake_set = BodyCells(game)
    /\ Cardinality(game.snake_set) = Len(game.snake)

\* The snake has grown and has moved on, popping its tail.
C18_Witness ==
    /\ game.alive /\ game.score >= 1 /\ ticks >= 3
    /\ Head(game.snake) # game.apple
    /\ game.snake_set = BodyCells(game)

\* C19: whenever no call is left unreturned, the apple is not on a cell of
\* the snake.
C19_AppleOffSnake ==
    fault = "None" => game.apple \notin BodyCells(game)

\* The apple has been placed again after the snake grew.
C19_Witness ==
    /\ fault = "None" /\ game.alive /\ game.score >= 2
    /\ game.apple \notin BodyCells(game)

\* C20: the epsilon of every agent of the population, and of the champion,
\* is at least its min_epsilon, however the per-death decay, the decay of
\* mutate_qagent and boost_exploration follow one another.
C20_EpsilonFloor ==
    /\ \A i \in 1..Len(evo.pop) : evo.pop[i].epsilon >= evo.pop[i].min_epsilon
    /\ evo.champion # NoChampion => evo.champion.epsilon >= evo.champion.min_epsilon

\* A boosted agent that has died has decayed down to the floor.
C20_Witness ==
    /\ evo.pop[1].epsilon = evo.pop[1].min_epsilon
    /\ evo.pop[1].alpha = 45
    /\ evo.pop[1].episodes > 0

(***************************************************************************)
(* state_key under a quarter turn of the world about the head              *)
(***************************************************************************)

\* The heading a quarter turn clockwise from d (y grows downwards).
ClockwiseOf(d) ==
    CASE d = "Up" -> "Right"
      [] d = "Right" -> "Down"
      [] d = "Down" -> "Left"
      [] d = "Left" -> "Up"

\* The cell p turned a quarter turn clockwise about the cell h.
RotPos(h, p) == Pos(h.x - (p.y - h.y), h.y + (p.x - h.x))

\* The game g with its snake, its apple and its heading turned a quarter
\* turn clockwise about the head; everything else is the same.
Rotated(g) ==
    [g EXCEPT !.snake = [i \in 1..Len(g.snake) |-> RotPos(Head(g.snake), g.snake[i])],
              !.snake_set = {RotPos(Head(g.snake), p) : p \in g.snake_set},
              !.apple = RotPos(Head(g.snake), g.apple),
              !.dir = ClockwiseOf(g.dir)]

\* The turned snake and apple still lie on the grid.
OnGrid(g) == InGrid(g.apple) /\ \A p \in BodyCells(g) : InGrid(p)

\* The n-th 2-bit field of a key: 1..8 vision, 9 apple direction, 10 distance.
FieldOf(k, n) == (k \div Pow4(n - 1)) % 4

\* The world cell the n-th vision field of g looks at.
SeenCell(g, n) ==
    Pos(Head(g.snake).x + world_offset(g.dir, checks[n])[1],
        Head(g.snake).y + world_offset(g.dir, checks[n])[2])

\* Three quarter turns clockwise: a quarter turn anticlockwise.
RotatedBack(g) == Rotated(Rotated(Rotated(g)))

\* The games a quarter turn away from g, either way, that fit on the grid.
QuarterTurns(g) == {r \in {Rotated(g), RotatedBack(g)} : OnGrid(r)}

\* The n-th vision field looks inside the grid in g and in the turned game r.
SeenInside(g, r, n) == InGrid(SeenCell(g, n)) /\ InGrid(SeenCell(r, n))

\* C21 as stated: a game and the same game turned a quarter turn about its
\* head (snake, apple and heading) have the same state key.
C21_HeadingInvariant ==
    \A r \in QuarterTurns(game) : state_key(r) = state_key(game)

\* C21 amended: the two keys agree on the apple direction, on the distance
\* bucket and on every vision field that looks at a cell inside the grid in
\* both games; a cell outside the grid is coded 1 whatever the heading.
C21_HeadingInvariantInside ==
    \A r \in QuarterTurns(game) :
        /\ \A n \in {9, 10} : FieldOf(state_key(r), n) = FieldOf(state_key(game), n)
        /\ \A n \in 1..8 :
             SeenInside(game, r, n) =>
                 FieldOf(state_key(r), n) = FieldOf(state_key(game), n)

\* A game that has moved and turned can be turned on the grid, its keys
\* differ, and fields inside the grid in both games see the body and the
\* apple.
C21_Witness ==
    /\ ticks > 0 /\ game.alive /\ game.dir # "Right"
    /\ \E r \in QuarterTurns(game) :
         /\ state_key(r) # state_key(game)
         /\ \E n \in 1..8 :
              SeenInside(game, r, n) /\ FieldOf(state_key(game), n) = 1
         /\ \E n \in 1..8 :
              SeenInside(game, r, n) /\ FieldOf(state_key(game), n) = 2

(***************************************************************************)
(* Relative turns                                                          *)
(***************************************************************************)

\* The headings in clockwise order, and the place of a heading in it.
Clock == <<"Up", "Right", "Down", "Left">>

ClockIndex(d) == CHOOSE k \in 1..4 : Clock[k] = d

\* The heading k quarter turns clockwise from d (k may be negative).
QuarterTurnsFrom(d, k) == Clock[((ClockIndex(d) - 1 + k + 8) % 4) + 1]

\* The row of Q-values agent holds for key s; an unseen key reads as zeros.
RowOf(agent, s) == IF s \in DOMAIN agent.q THEN agent.q[s] ELSE <<0, 0, 0>>

\* The first action with the largest Q-value of a row.
FirstBest(row) ==
    CHOOSE a \in 0..2 :
        /\ \A b \in 0..2 : row[b + 1] <= row[a + 1]
        /\ \A b \in 0..(a - 1) : row[b + 1] < row[a + 1]

\* The action slot i chose in the current step: the uniform draw when it
\* explored, else the first best action of its row as the step began.
ChosenAction(i) ==
    IF draws[i].explore THEN draws[i].rand_a
    ELSE FirstBest(RowOf(pre.pop[i], state_key(pre.games[i])))

\* C22: after the closure of slot i has run, the heading of its game is the
\* heading as the step began turned left for action 0, kept for 1 and turned
\* right for 2; it is never the opposite heading, so the heading asked of
\* change_dir is the one the game has.  The same holds of dir_after_action
\* followed by change_dir for every heading and every action.
C22_RelativeTurn ==
    /\ \A d \in Dirs : \A a \in 0..2 :
         /\ dir_after_action(d, a) = QuarterTurnsFrom(d, a - 1)
         /\ dir_after_action(d, a) # OppositeOf(d)
         /\ change_dir([game EXCEPT !.dir = d], dir_after_action(d, a)).dir
               = QuarterTurnsFrom(d, a - 1)
    /\ pc = "par" =>
         \A i \in 1..step_len(evo) :
           draws[i] # <<>> =>
             /\ ChosenAction(i) \in 0..2
             /\ evo.games[i].dir
                   = QuarterTurnsFrom(pre.games[i].dir, ChosenAction(i) - 1)
             /\ evo.games[i].dir # OppositeOf(pre.games[i].dir)

\* An agent heading Left has turned right and now heads Up, and a greedy
\* choice has been made in the same run.
C22_Witness ==
    /\ pc = "par"
    /\ \E i \in 1..step_len(evo) :
         /\ draws[i] # <<>> /\ pre.games[i].dir = "Left"
         /\ ChosenAction(i) = 2 /\ evo.games[i].dir = "Up"

\* The headings the program holds: every Dir, among them those of the manual
\* game and of the games of the population.
HeldDirs == Dirs \cup {game.dir} \cup {evo.games[i].dir : i \in 1..Len(evo.games)}

\* C23: for every heading, a right turn undone by a left turn, a left turn
\* undone by a right turn, and four left turns, all give the heading back.
C23_TurnsInvert ==
    \A d \in HeldDirs :
        /\ left_dir(right_dir(d)) = d
        /\ right_dir(left_dir(d)) = d
        /\ left_dir(left_dir(left_dir(left_dir(d)))) = d

\* The leader has turned left twice from Right and heads Left, two left
\* turns short of the heading it began with.
C23_Witness ==
    /\ pc = "par" /\ draws[1] # <<>>
    /\ evo.games[1].dir = "Left"
    /\ pre.games[1].dir = "Up"
    /\ ChosenAction(1) = 0
    /\ left_dir(left_dir(evo.games[1].dir)) = "Right"

\* A game as new_with_wrap leaves it: FreshGame, the three cells in the
\* middle row with the head at the centre, the apple off the snake.
JustCreated(g) ==
    /\ FreshGame(g)
    /\ \A k \in 1..3 :
         g.snake[k] = Pos(GRID_WIDTH \div 2 - (k - 1), GRID_HEIGHT \div 2)
    /\ g.apple \in Cells \ BodyCells(g)

\* The cell to the right of the head.
RightOfHead(g) == Pos(Head(g.snake).x + 1, Head(g.snake).y)

\* One update has moved the head one cell to the right and removed the tail
\* cell; score and alive are as they were.
MovedRight(g, h) ==
    /\ h.snake = <<RightOfHead(g), g.snake[1], g.snake[2]>>
    /\ h.snake_set = {RightOfHead(g), g.snake[1], g.snake[2]}
    /\ g.snake[3] \notin h.snake_set
    /\ h.score = g.score
    /\ h.alive = g.alive

\* C24 as stated: one update of a game just created, wherever off the snake
\* its apple is, moves the head one cell to the right, removes the tail cell
\* and leaves score and alive unchanged.
C24_FirstUpdate ==
    [][(UpdateStep /\ JustCreated(game)) => MovedRight(game, game')]_vars

\* C24 amended: the same, for a game just created whose apple is not on the
\* cell to the right of the head; with the apple on that cell the update
\* eats it, the score is 1 and the tail stays.
C24_FirstUpdateNoApple ==
    [][(UpdateStep /\ JustCreated(game))
         => IF game.apple # RightOfHead(game)
            THEN MovedRight(game, game')
            ELSE /\ game'.score = 1 /\ game'.alive
                 /\ game'.snake = <<RightOfHead(game)>> \o game.snake]_vars

\* The first update of a game has moved it one cell to the right without
\* eating.
C24_Witness ==
    /\ ticks = 1 /\ game.alive /\ game.score = 0 /\ game.dir = "Right"
    /\ game.snake = <<Pos(GRID_WIDTH \div 2 + 1, GRID_HEIGHT \div 2),
                      Pos(GRID_WIDTH \div 2, GRID_HEIGHT \div 2),
                      Pos(GRID_WIDTH \div 2 - 1, GRID_HEIGHT \div 2)>>

\* C25: a slot whose backend call failed in this step has been turned as the
\* tabular policy of its own agent chooses (the uniform draw when it
\* explores, else the first best action of its row).
C25_TabularFallback ==
    pc = "par" =>
      \A i \in stepped :
        (draws[i] # <<>> /\ draws[i].failed) =>
            evo.games[i].dir
                = QuarterTurnsFrom(pre.games[i].dir, ChosenAction(i) - 1)

\* What the backend paths do on a failed call: the game goes straight on and
\* the agent of the slot is not touched; the step is decided as any other.
BackendFailedGoesStraight ==
    pc = "par" =>
      \A i \in stepped :
        (draws[i] # <<>> /\ draws[i].failed) =>
            /\ evo.games[i].dir = pre.games[i].dir
            /\ evo.pop[i] = pre.pop[i]

(***************************************************************************)
(* Stagnation and restarts                                                 *)
(***************************************************************************)

\* A step that is one call of reproduce.
ReproduceStep == pc = "reproduce" /\ pc' # pc

\* The call finds a top score above champion_score.
NewChampion(e) == TopScore(e) > e.champion_score

\* The stagnation counter as the call tests it.
CounterTested(e) ==
    IF NewChampion(e) THEN 0 ELSE e.epochs_without_improvement + 1

\* A champion exists when the call makes its test.
ChampionKnown(e) == NewChampion(e) \/ e.champion # NoChampion

\* The test of the call asks for a restart.
RestartDue(e) ==
    /\ CounterTested(e) >= BaseThreshold + ThresholdStep * e.restart_count
    /\ ChampionKnown(e)

\* The call has gone through a restart: restart_count has moved to a tier.
Restarted(e, f) == f.restart_count # e.restart_count /\ f.restart_count >= 1

\* C26: a reproduce call restarts exactly when the counter, one more than
\* before when there is no new champion, has reached BaseThreshold +
\* ThresholdStep * restart_count and a champion exists; the counter ends at
\* 0 after a restart or a new champion and one higher otherwise.
C26_StagnationCounter ==
    [][ReproduceStep =>
         /\ Restarted(evo, evo') <=> RestartDue(evo)
         /\ evo'.epochs_without_improvement
              = IF NewChampion(evo) \/ Restarted(evo, evo') THEN 0
                ELSE evo.epochs_without_improvement + 1]_vars

\* After the second restart the counter has passed the first threshold and
\* the second without a restart.
C26_Witness ==
    /\ pc = "idle" /\ evo.restart_count = 2
    /\ evo.champion # NoChampion
    /\ evo.epochs_without_improvement = BaseThreshold + ThresholdStep

\* Tenths of the population a restart tier gives to the champion and its
\* children.
TierShare == <<10, 5, 3, 2, 1>>

\* Champion-derived agents of a population of n rebuilt at tier k: the
\* champion itself and its children.
DerivedCount(k, n) == Max(1, (n * TierShare[k]) \div 10)

\* The slots after the first that hold a child of a restart (boosted, then
\* mutated once), a fresh agent, a boosted fresh agent.
RestartChildren(pop) ==
    {i \in 2..Len(pop) : pop[i].alpha = 45 /\ pop[i].epsilon = 3497}

FreshSlots(pop) ==
    {i \in 2..Len(pop) : pop[i].alpha = 30 /\ pop[i].epsilon = 2500
                         /\ pop[i].q = <<>>}

BoostedFreshSlots(pop) ==
    {i \in 2..Len(pop) : pop[i].alpha = 45 /\ pop[i].epsilon = 3500
                         /\ pop[i].q = <<>>}

\* The population of trainer f is the one tier k builds.
PopOfTier(f, k) ==
    /\ f.pop[1] = f.champion
    /\ Cardinality(RestartChildren(f.pop)) = DerivedCount(k, f.pop_size) - 1
    /\ Cardinality(IF k = 5 THEN BoostedFreshSlots(f.pop) ELSE FreshSlots(f.pop))
         = f.pop_size - DerivedCount(k, f.pop_size)

\* C27: restart_count stays within 0..5 and only reproduce writes it; a
\* restart moves it from 0 to 1, 1 to 2, ... and from 5 back to 1, and
\* builds the population of the tier it moves to; a new champion puts it
\* back to 0; any other call leaves it alone.
C27_TierCycle ==
    /\ evo.restart_count \in 0..5
    /\ [][/\ evo'.restart_count \in 0..5
          /\ ~ReproduceStep => evo'.restart_count = evo.restart_count
          /\ ReproduceStep =>
               IF RestartDue(evo)
               THEN /\ evo'.restart_count = (evo.restart_count % 5) + 1
                    /\ PopOfTier(evo', evo'.restart_count)
               ELSE IF NewChampion(evo) THEN evo'.restart_count = 0
               ELSE evo'.restart_count = evo.restart_count]_vars

\* The ladder has been climbed to the fifth tier and the next restart has
\* come back to the first.
C27_Witness ==
    /\ pc = "idle" /\ evo.restart_count = 1
    /\ evo.epoch >= 22 /\ evo.pop_size >= 10
    /\ PopOfTier(evo, 1)

\* reproduce has just rebuilt the population at a tier above the first.
JustRestartedAbove(e) ==
    /\ pc = "idle" /\ e.epoch > 0
    /\ e.restart_count \in 2..5
    /\ e.epochs_without_improvement = 0
    /\ PopOfTier(e, e.restart_count)

\* The two counts of the ladder: against the tier below, the rebuilt
\* population has no more champion-derived agents and no fewer fresh ones.
LadderSharesMonotone ==
    JustRestartedAbove(evo) =>
        /\ Cardinality(RestartChildren(evo.pop)) + 1
             <= DerivedCount(evo.restart_count - 1, evo.pop_size)
        /\ evo.pop_size - (Cardinality(RestartChildren(evo.pop)) + 1)
             >= evo.pop_size - DerivedCount(evo.restart_count - 1, evo.pop_size)

\* C28: against the tier below, a population rebuilt at tier 2..5 has no
\* more champion-derived agents, no fewer fresh agents, and its champion
\* children were mutated with a magnitude that is no smaller.
C28_LadderMonotone ==
    /\ LadderSharesMonotone
    /\ JustRestartedAbove(evo) =>
         tier_sigma(evo.restart_count) >= tier_sigma(evo.restart_count - 1)

(***************************************************************************)
(* The generations reproduce builds                                        *)
(***************************************************************************)

\* The first slot that holds the top score.
TopSlot(e) ==
    CHOOSE i \in 1..Len(e.scores) :
        /\ e.scores[i] = TopScore(e)
        /\ \A j \in 1..(i - 1) : e.scores[j] < TopScore(e)

\* Agent c is a mutated clone of agent p: the same states, every Q-value
\* within sigma of p's, epsilon decayed once (not below the floor), and the
\* other hyperparameters and counters as p has them.
MutatedClone(c, p, sigma) ==
    /\ DOMAIN c.q = DOMAIN p.q
    /\ \A k \in DOMAIN p.q : \A j \in 1..3 : Abs(c.q[k][j] - p.q[k][j]) <= sigma
    /\ c.epsilon = Max((p.epsilon * p.decay) \div 10000, p.min_epsilon)
    /\ c.min_epsilon = p.min_epsilon /\ c.decay = p.decay
    /\ c.alpha = p.alpha /\ c.gamma = p.gamma
    /\ c.steps = p.steps /\ c.episodes = p.episodes

\* C29: a reproduce call that finds a top score above champion_score stores
\* the first top-scoring agent of the old population as champion, with that
\* score, and builds a population of the same size whose first slot is the
\* champion unchanged and whose every other slot is a mutated clone of it.
C29_NewChampionGeneration ==
    [][(ReproduceStep /\ NewChampion(evo)) =>
         /\ evo'.champion = evo.pop[TopSlot(evo)]
         /\ evo'.champion_score = TopScore(evo)
         /\ Len(evo'.pop) = evo.pop_size
         /\ evo'.pop[1] = evo'.champion
         /\ \A i \in 2..Len(evo'.pop) :
              MutatedClone(evo'.pop[i], evo'.champion, 150)]_vars

\* A champion that has learnt leads the new generation, followed by a child
\* whose Q-values differ from its own.
C29_Witness ==
    /\ pc = "idle" /\ evo.epoch > 0
    /\ evo.champion # NoChampion
    /\ evo.champion_epoch = evo.epoch - 1
    /\ evo.pop[1] = evo.champion
    /\ DOMAIN evo.champion.q # {}
    /\ evo.pop[2].q # evo.champion.q
    /\ MutatedClone(evo.pop[2], evo.champion, 150)

\* Slot i outranks slot j at the end of an epoch: a higher score, or the
\* same score in an earlier slot.
Outranks(e, i, j) ==
    e.scores[i] > e.scores[j] \/ (e.scores[i] = e.scores[j] /\ i < j)

\* The place of slot i in the ranking, from 1.
RankOf(e, i) == 1 + Cardinality({j \in 1..e.pop_size : Outranks(e, j, i)})

\* The slots of the min(3, N) highest-scoring agents.
EliteSlots(e) == {i \in 1..e.pop_size : RankOf(e, i) <= Min(3, e.pop_size)}

\* The call takes the normal branch: no new champion and no restart.
SteadyCall(e) == ~NewChampion(e) /\ ~RestartDue(e)

\* C30: a reproduce call of the normal branch that returns builds a
\* population of the same size: the min(3, N) highest-scoring agents first,
\* unchanged, in the order of their rank; then up to four children, each a
\* mutated clone of one of those agents; then fresh agents only.
C30_SteadyGeneration ==
    [][(ReproduceStep /\ SteadyCall(evo) /\ fault' = "None") =>
         /\ Len(evo'.pop) = evo.pop_size
         /\ \A i \in EliteSlots(evo) : evo'.pop[RankOf(evo, i)] = evo.pop[i]
         /\ \A s \in (Min(3, evo.pop_size) + 1)..Min(Min(3, evo.pop_size) + 4,
                                                       evo.pop_size) :
              \E i \in EliteSlots(evo) : MutatedClone(evo'.pop[s], evo.pop[i], 150)
         /\ \A s \in (Min(3, evo.pop_size) + 5)..evo.pop_size :
              evo'.pop[s] = QAgent_new]_vars

\* The normal branch has built a population of eight after an epoch whose
\* best agent sat in the last slot: it leads the elite, with a learnt
\* Q-table; a child's Q-values were moved; the last slot is fresh.
C30_Witness ==
    /\ pc = "idle" /\ fault = "None"
    /\ evo.epoch = 3 /\ evo.pop_size = 8
    /\ evo.restart_count = 1 /\ evo.epochs_without_improvement = 1
    /\ evo.epoch_best[3] = 1
    /\ DOMAIN evo.pop[1].q # {}
    /\ \E i \in 1..3 :
         /\ MutatedClone(evo.pop[4], evo.pop[i], 150)
         /\ evo.pop[4].q # evo.pop[i].q
    /\ evo.pop[8] = QAgent_new

(***************************************************************************)
(* The trainer across epochs                                               *)
(***************************************************************************)

\* C31: a reproduce call that returns leaves epoch one higher, steps_taken
\* 0, every score slot 0 and every game as new_with_wrap makes it (alive,
\* score 0, three cells at the centre heading Right, apple off the snake)
\* with the wrap mode of the trainer, which the call does not change.
C31_ReproduceResets ==
    [][(ReproduceStep /\ fault' = "None") =>
         /\ evo'.epoch = evo.epoch + 1
         /\ evo'.steps_taken = 0
         /\ evo'.wrap_world = evo.wrap_world
         /\ Len(evo'.games) = evo.pop_size
         /\ \A i \in 1..Len(evo'.scores) : evo'.scores[i] = 0
         /\ \A i \in 1..Len(evo'.games) :
              /\ JustCreated(evo'.games[i])
              /\ evo'.games[i].wrap_world = evo'.wrap_world]_vars

\* An epoch played between walls, in which a game scored and one died, has
\* gone through reproduce: the games are new and keep the walls.
C31_Witness ==
    /\ pc = "idle" /\ fault = "None"
    /\ evo.epoch = 1 /\ ~evo.wrap_world
    /\ evo.epoch_best[1] > 0
    /\ evo.steps_taken = 0
    /\ \A i \in 1..Len(evo.games) :
         JustCreated(evo.games[i]) /\ ~evo.games[i].wrap_world /\ evo.scores[i] = 0

(***************************************************************************)
(* The cells state_key samples                                             *)
(***************************************************************************)

\* The 2-bit code of the world cell p in game g.
CellCode(g, p) ==
    IF ~InGrid(p) THEN 1
    ELSE IF p \in g.snake_set THEN 1
    ELSE IF p = g.apple THEN 2
    ELSE 0

\* The cell ahead of the head of g (the one a straight move enters, walls
\* aside), and the cells on the lines ahead of, beside and behind the head.
AheadOf(g) == StepFrom(Head(g.snake), g.dir)

BehindOf(g) == StepFrom(Head(g.snake), opposite(g.dir))

LeftOf(g, p) == StepFrom(p, left_dir(g.dir))

RightOf(g, p) == StepFrom(p, right_dir(g.dir))

\* C32: for every heading the fields 1..3 of the key (bits 0-5) sample the
\* cells left-ahead, ahead and right-ahead of the head, field 2 (bits 2-3)
\* coding the cell a straight move enters; fields 4, 5 sample the left and
\* right neighbours and fields 6..8 the three cells behind the head.
C32_ForwardCells ==
    /\ SeenCell(game, 1) = LeftOf(game, AheadOf(game))
    /\ SeenCell(game, 2) = AheadOf(game)
    /\ SeenCell(game, 3) = RightOf(game, AheadOf(game))
    /\ SeenCell(game, 4) = LeftOf(game, Head(game.snake))
    /\ SeenCell(game, 5) = RightOf(game, Head(game.snake))
    /\ SeenCell(game, 6) = LeftOf(game, BehindOf(game))
    /\ SeenCell(game, 7) = BehindOf(game)
    /\ SeenCell(game, 8) = RightOf(game, BehindOf(game))
    /\ FieldOf(state_key(game), 2) = CellCode(game, AheadOf(game))

(***************************************************************************)
(* A game after its collision                                              *)
(***************************************************************************)

\* The fields of a game the collision leaves behind.
DeadFields(g) == <<g.snake, g.snake_set, g.dir, g.apple, g.score, g.last_death>>

\* C33: once alive is false, a step either replaces the game with a new
\* one or leaves snake, snake_set, dir, apple, score and last_death as they
\* are.
C33_DeadImmutable ==
    [][~game.alive =>
         (JustCreated(game') \/ DeadFields(game') = DeadFields(game))]_vars

(***************************************************************************)
(* The greedy choice and the Q-learning update                             *)
(***************************************************************************)

\* Rows of three Q-values with every pattern of ties and orders.
SampleRows == [1..3 -> {-1000, 0, 1000}]

\* Slot i took the greedy branch of select_action in the current step.
ChoseGreedily(i) ==
    /\ i \in stepped /\ Eligible(i)
    /\ draws[i] # <<>> /\ ~draws[i].explore

\* C34: the greedy branch of select_action returns the smallest action
\* whose Q-value is the largest of the row (for every pattern of ties), 0
\* for a state the agent has no row for; the game of a slot that chose
\* greedily has turned by that action.
C34_GreedyFirstMax ==
    /\ \A row \in SampleRows : greedy_action(row) = FirstBest(row)
    /\ pc = "par" =>
         \A i \in 1..step_len(evo) :
           ChoseGreedily(i) =>
             /\ select_action(pre.pop[i], state_key(pre.games[i]), FALSE, 0).a
                  = FirstBest(RowOf(pre.pop[i], state_key(pre.games[i])))
             /\ state_key(pre.games[i]) \notin DOMAIN pre.pop[i].q
                  => select_action(pre.pop[i], state_key(pre.games[i]), FALSE, 0).a = 0
             /\ evo.games[i].dir
                  = dir_after_action(pre.games[i].dir,
                       FirstBest(RowOf(pre.pop[i], state_key(pre.games[i]))))

\* A slot chose greedily in a state it had learnt about: its first action
\* is worth less than the other two, which tie, and it went straight.
C34_Witness ==
    /\ pc = "par"
    /\ \E i \in 1..step_len(evo) :
         /\ ChoseGreedily(i)
         /\ state_key(pre.games[i]) \in DOMAIN pre.pop[i].q
         /\ \E row \in {pre.pop[i].q[state_key(pre.games[i])]} :
              row[1] < row[2] /\ row[2] = row[3]
         /\ evo.games[i].dir = pre.games[i].dir

\* The closure of slot i has run select_action and learn in the current step.
LearnStep(i) == i \in stepped /\ Eligible(i) /\ draws[i] # <<>>

\* The arguments s and next_state of that call of learn.
LearntKey(i) == state_key(pre.games[i])

NextKey(i) == state_key(evo.games[i])

\* The reward of a step that ended the game.
DeathReward(g) ==
    CASE g.last_death = "SelfCollision" -> -30000
      [] g.last_death = "Wall" -> -20000
      [] OTHER -> -12000

\* Every Q-value other than Q[s][a] reads after the step as it did before,
\* an absent row reading as zeros.
OtherValuesKept(i) ==
    \A k \in (DOMAIN pre.pop[i].q) \cup (DOMAIN evo.pop[i].q) : \A b \in 0..2 :
        <<k, b>> # <<LearntKey(i), ChosenAction(i)>>
            => RowOf(evo.pop[i], k)[b + 1] = RowOf(pre.pop[i], k)[b + 1]

\* With done the new Q[s][a] is old + alpha * (r - old), and it is the same
\* whatever row the table holds for a next_state other than s.
DoneIgnoresNext(i) ==
    ~evo.games[i].alive =>
      /\ evo.pop[i].q[LearntKey(i)][ChosenAction(i) + 1]
           = RowOf(pre.pop[i], LearntKey(i))[ChosenAction(i) + 1]
             + (pre.pop[i].alpha
                * (DeathReward(evo.games[i])
                   - RowOf(pre.pop[i], LearntKey(i))[ChosenAction(i) + 1])) \div 100
      /\ \A ns \in ((DOMAIN pre.pop[i].q) \cup {NextKey(i)}) \ {LearntKey(i)} :
           \A row \in {<<1000, 1000, 1000>>, <<-1000, 0, 2000>>} :
             learn([get_qs(pre.pop[i], ns) EXCEPT !.q[ns] = row],
                   LearntKey(i), ChosenAction(i), DeathReward(evo.games[i]),
                   ns, TRUE).q[LearntKey(i)][ChosenAction(i) + 1]
               = evo.pop[i].q[LearntKey(i)][ChosenAction(i) + 1]

\* C35 as stated: a learn with done gives a Q[s][a] that depends on the old
\* Q[s][a], alpha and the reward only; learn changes no value but Q[s][a]
\* and, select_action having stored nothing, stores no row for next_state.
C35_LearnTouchesOneEntry ==
    pc = "par" =>
      \A i \in 1..step_len(evo) :
        LearnStep(i) =>
          /\ DoneIgnoresNext(i)
          /\ OtherValuesKept(i)
          /\ (draws[i].explore /\ NextKey(i) \notin DOMAIN pre.pop[i].q)
               => NextKey(i) \notin DOMAIN evo.pop[i].q

\* C35 amended: as above, but the row learn stores is the row of s, with
\* zeros if s had none: the table gains the key s and no other, so a row
\* for next_state is stored exactly when next_state is s.
C35_LearnTouchesOneRow ==
    pc = "par" =>
      \A i \in 1..step_len(evo) :
        LearnStep(i) =>
          /\ DoneIgnoresNext(i)
          /\ OtherValuesKept(i)
          /\ DOMAIN evo.pop[i].q = (DOMAIN pre.pop[i].q) \cup {LearntKey(i)}

\* One slot explored, went straight and died in a state it had no row for:
\* next_state is s and its row is now stored; another slot explored and
\* moved on to a next_state that has no row before or after.
C35_Witness ==
    /\ pc = "par"
    /\ \E i \in 1..step_len(evo) :
         /\ LearnStep(i) /\ draws[i].explore /\ ~evo.games[i].alive
         /\ LearntKey(i) \notin DOMAIN pre.pop[i].q
         /\ NextKey(i) = LearntKey(i)
         /\ evo.pop[i].q[LearntKey(i)][ChosenAction(i) + 1] < 0
    /\ \E j \in 1..step_len(evo) :
         /\ LearnStep(j) /\ draws[j].explore /\ evo.games[j].alive
         /\ NextKey(j) # LearntKey(j)
         /\ NextKey(j) \notin DOMAIN evo.pop[j].q
         /\ LearntKey(j) \in DOMAIN evo.pop[j].q

(***************************************************************************)
(* The history of best scores                                              *)
(***************************************************************************)

\* Sequence s is the beginning of sequence t.
IsPrefix(s, t) == Len(s) <= Len(t) /\ \A k \in 1..Len(s) : t[k] = s[k]

\* A reproduce call that returns appends the top score of its epoch, and no
\* other step adds an entry.
OneEntryPerEpoch ==
    /\ (ReproduceStep /\ fault' = "None")
         => evo'.epoch_best = Append(evo.epoch_best, TopScore(evo))
    /\ ~ReproduceStep => Len(evo'.epoch_best) <= Len(evo.epoch_best)

\* The step switches training on.
TrainingSwitchedOn == ~evo.training /\ evo'.training

\* C36 as stated: epoch_best gains one entry with every reproduce call, the
\* top score of the epoch, and no step changes or removes an entry it holds.
C36_HistoryAppendOnly ==
    [][OneEntryPerEpoch /\ IsPrefix(evo.epoch_best, evo'.epoch_best)]_vars

\* C36 amended: the same between two presses of E; the press that switches
\* training on empties the history and sets epoch to 0, so that the history
\* has one entry for each epoch counted (after every call that returns).
C36_HistoryPerRun ==
    [][/\ OneEntryPerEpoch
       /\ IF TrainingSwitchedOn
          THEN evo'.epoch_best = <<>> /\ evo'.epoch = 0
          ELSE IsPrefix(evo.epoch_best, evo'.epoch_best)
       /\ fault' = "None" => Len(evo'.epoch_best) = evo'.epoch]_vars

\* Training was switched on, off and on again and one epoch without an
\* apple was played since: the history is that one entry, while the
\* champion still has the score of an epoch played before.
C36_Witness ==
    /\ pc = "idle" /\ fault = "None"
    /\ toggles = 3 /\ evo.training
    /\ evo.epoch = 1 /\ evo.epoch_best = <<0>>
    /\ evo.champion_score > 0

(***************************************************************************)
(* Score slots and games                                                   *)
(***************************************************************************)

\* C37: between two callbacks (the step loop and reproduce have returned,
\* whatever presses of E came before) every score slot holds the score of
\* the game of its slot, dead or alive.
C37_ScoreSlotsMirrorGames ==
    (pc = "idle" /\ fault = "None") =>
      \A i \in 1..Len(evo.scores) : evo.scores[i] = evo.games[i].score

\* Steps have been taken in the epoch and a game that had eaten has died:
\* its slot still holds its score.
C37_Witness ==
    /\ pc = "idle" /\ fault = "None"
    /\ evo.steps_taken > 0
    /\ \E i \in 1..Len(evo.scores) :
         /\ ~evo.games[i].alive
         /\ evo.games[i].score > 0
         /\ evo.scores[i] = evo.games[i].score

(***************************************************************************)
(* The end of an epoch                                                     *)
(***************************************************************************)

\* C38: with training on and not paused, the epoch under way ends: from
\* every state of the run reproduce is called in the end, unless an update
\* never returns.
C38_EpochEnds ==
    (evo.training /\ evo.epoch < MaxLiveEpoch /\ fault = "None")
        ~> (pc = "reproduce" \/ fault # "None")

(***************************************************************************)
(* The cause of a death                                                    *)
(***************************************************************************)

\* The game of slot i has died in the current step.
DiedInStep(i) == i \in stepped /\ pre.games[i].alive /\ ~evo.games[i].alive

\* C39: a game of the trainer is dead exactly when last_death is not None;
\* last_death is Wall only in a game with solid walls; so the reward of a
\* step in which a game dies is that of a self-collision or of a wall,
\* never the one kept for a death without a cause.
C39_DeathHasCause ==
    /\ \A i \in 1..Len(evo.games) :
         /\ ~evo.games[i].alive <=> evo.games[i].last_death # "None"
         /\ evo.games[i].last_death \in {"None", "Wall", "SelfCollision"}
         /\ evo.games[i].last_death = "Wall" => ~evo.games[i].wrap_world
    /\ pc = "par" =>
         \A i \in 1..step_len(evo) :
           DiedInStep(i) =>
             reward(TRUE, FALSE, evo.games[i].last_death, Len(evo.games[i].snake),
                    apple_dist(pre.games[i]), apple_dist(evo.games[i]))
               \in {-30000, -20000}

\* Between walls a game has run into the wall in the current step.
C39_Witness ==
    /\ pc = "par"
    /\ \E i \in 1..step_len(evo) :
         /\ DiedInStep(i)
         /\ ~evo.games[i].wrap_world
         /\ evo.games[i].last_death = "Wall"

(***************************************************************************)
(* The grid                                                                *)
(***************************************************************************)

\* C40: after any sequence of update and change_dir calls on a new game,
\* with a wrapping world or with walls, every cell of the snake, every cell
\* of its set mirror and the apple have 0 <= x < GRID_WIDTH and
\* 0 <= y < GRID_HEIGHT.
C40_InsideGrid ==
    /\ \A k \in 1..Len(game.snake) :
         /\ game.snake[k].x >= 0 /\ game.snake[k].x < GRID_WIDTH
         /\ game.snake[k].y >= 0 /\ game.snake[k].y < GRID_HEIGHT
    /\ \A p \in game.snake_set : p \in Cells
    /\ game.apple.x >= 0 /\ game.apple.x < GRID_WIDTH
    /\ game.apple.y >= 0 /\ game.apple.y < GRID_HEIGHT

\* Between walls a snake that has eaten has run into the wall: its head is
\* on the edge, facing out, and the cell it was to enter is off the grid.
C40_Witness ==
    /\ ~game.wrap_world /\ ~game.alive /\ game.last_death = "Wall"
    /\ game.score > 0
    /\ ~InGrid(StepFrom(Head(game.snake), game.dir))
    /\ InGrid(Head(game.snake)) /\ InGrid(game.apple)

====
